---- MODULE Spec2Model ----
(***************************************************************************)
(* A state-machine model of class Maze (src/maze.py): the packed cell      *)
(* state, the compass, Wilson's generator, the recursive backtracker and   *)
(* the dead-end backfill solver.  Every loop iteration of an algorithm is  *)
(* one step, and every step emits at most one event.                       *)
(***************************************************************************)
EXTENDS Integers, Sequences, FiniteSets, TLC

\* ------------------------------------------------------------------ bounds
\* Largest number of cells of a grid (the product of its shape).
MaxCells == 4
\* Largest number of cells the caller hides at a time.
MaxHidden == 2
\* Largest number of cells of a grid whose cells hold arbitrary values.
MaxOpCells == 2

\* Largest number of axes, and largest size of an axis, of a shape handed to
\* the constructor alone.
MaxAxes == 4
MaxDim == 2

\* -------------------------------------------------------- integer bit ops
RECURSIVE BitAnd(_, _)
BitAnd(a, b) ==
    IF a = 0 \/ b = 0 THEN 0
    ELSE (IF a % 2 = 1 /\ b % 2 = 1 THEN 1 ELSE 0) + 2 * BitAnd(a \div 2, b \div 2)

BitOr(a, b) == a + b - BitAnd(a, b)

BitXor(a, b) == a + b - 2 * BitAnd(a, b)

\* a & ~m
BitClear(a, m) == a - BitAnd(a, m)

\* ------------------------------------------ cell state and direction bits
INMAZE == 1
HIDDEN == INMAZE * 2
SOLUTION == HIDDEN * 2
NOTSOLUTION == SOLUTION * 2
STATE_MASK == BitOr(BitOr(BitOr(INMAZE, HIDDEN), SOLUTION), NOTSOLUTION)
INUSE == BitOr(INMAZE, HIDDEN)
\* E := _ without the shift: the first direction on the last flag's bit.
ENotShifted == NOTSOLUTION
E == NOTSOLUTION * 2
NE == E * 2
N == NE * 2
NW == N * 2
W == NW * 2
SW == W * 2
S == SW * 2
SE == S * 2
U == SE * 2
D == U * 2
DIR ==
    BitOr(BitOr(BitOr(BitOr(BitOr(BitOr(BitOr(BitOr(BitOr(E, NE), N), NW), W), SW), S), SE), U), D)

\* ------------------------------------------------------------- directions
Direction(val, opposite, name, deltas) ==
    [val |-> val, opposite |-> opposite, name |-> name, deltas |-> deltas]

Orthogonal2D ==
    << Direction(N, S, "North", <<0, -1>>),
       Direction(E, W, "East", <<1, 0>>),
       Direction(S, N, "South", <<0, 1>>),
       Direction(W, E, "West", <<-1, 0>>) >>

Orthogonal3D ==
    << Direction(N, S, "North", <<0, 1, 0>>),
       Direction(E, W, "East", <<1, 0, 0>>),
       Direction(S, N, "South", <<0, -1, 0>>),
       Direction(W, E, "West", <<-1, 0, 0>>),
       Direction(U, D, "Up", <<0, 0, -1>>),
       Direction(D, U, "Down", <<0, 0, 1>>) >>

Hexagonal2D ==
    << Direction(NE, SW, "NE", <<1, 0>>),
       Direction(N, S, "N", <<0, -1>>),
       Direction(NW, SE, "NW", <<-1, 0>>),
       Direction(SW, NE, "SW", <<-1, 1>>),
       Direction(S, N, "S", <<0, 1>>),
       Direction(SE, NW, "SE", <<1, 1>>) >>

\* ------------------------------------------------------------ coordinates
Min(a, b) == IF a < b THEN a ELSE b

\* All coordinate tuples of an array of the given shape.
RECURSIVE Coords(_)
Coords(shape) ==
    IF Len(shape) = 0 THEN {<<>>}
    ELSE LET n == Len(shape)
         IN {Append(c, x) : c \in Coords(SubSeq(shape, 1, n - 1)), x \in 0 .. (shape[n] - 1)}

\* tuple(map(lambda i, j: i + j, coord, deltas)): map stops at the shorter.
Neighbor(coord, deltas) ==
    [i \in 1 .. Min(Len(coord), Len(deltas)) |-> coord[i] + deltas[i]]

\* np.zeros(shape, dtype=int)
clear(shape) == [c \in Coords(shape) |-> 0]

\* A reset that spares the INMAZE flag as well.
cleanKeepsInMaze(cells) == [c \in DOMAIN cells |-> BitAnd(cells[c], BitOr(HIDDEN, INMAZE))]

\* self.cells &= Maze.HIDDEN
clean(cells) == [c \in DOMAIN cells |-> BitAnd(cells[c], HIDDEN)]

\* A reset of the solution data that takes the INMAZE flag along.
unsolveDropsInMaze(cells) ==
    [c \in DOMAIN cells |-> BitClear(cells[c], BitOr(INMAZE, BitOr(SOLUTION, NOTSOLUTION)))]

\* self.cells &= ~(Maze.SOLUTION | Maze.NOTSOLUTION)
unsolve(cells) == [c \in DOMAIN cells |-> BitClear(cells[c], BitOr(SOLUTION, NOTSOLUTION))]

\* inbound letting a component equal to the dimension pass.
inboundInclusive(shape, coord) ==
    IF Len(shape) # Len(coord) THEN FALSE
    ELSE ~ \E i \in 1 .. Len(coord) : coord[i] < 0 \/ coord[i] > shape[i]

\* Maze.inbound(coord).  shape and coord are both tuples, so the test of
\* their types passes and the test of their lengths decides.
inbound(shape, coord) ==
    IF Len(shape) # Len(coord) THEN FALSE
    ELSE ~ \E i \in 1 .. Len(coord) : coord[i] < 0 \/ coord[i] >= shape[i]

\* Row-major order of coordinate tuples (the order of nonzero() and zip).
RECURSIVE Before(_, _)
Before(a, b) ==
    IF Len(a) = 0 \/ Len(b) = 0 THEN FALSE
    ELSE IF a[1] # b[1] THEN a[1] < b[1]
    ELSE Before(Tail(a), Tail(b))

\* ((cells & INUSE) == 0).nonzero(): the coordinates of the empty cells.
Empties(cells) == {c \in DOMAIN cells : BitAnd(cells[c], INUSE) = 0}

\* ------------------------------------------------------------ constructor
\* The compass dictionary built by __init__: val -> Direction, a later entry
\* of the list replacing an earlier one with the same val.
BuildCompass(directions) ==
    [v \in {directions[i].val : i \in 1 .. Len(directions)} |->
        LET last == CHOOSE i \in 1 .. Len(directions) :
                        /\ directions[i].val = v
                        /\ \A j \in (i + 1) .. Len(directions) : directions[j].val # v
        IN directions[last]]

\* Maze.__init__(shape, directions=...); given = FALSE is directions=None.
\* ok = FALSE is the ValueError.
MazeInit(shape, given, directions) ==
    LET n == Len(shape)
        chosen == IF given THEN directions
                  ELSE IF n = 2 \/ (n = 3 /\ shape[3] = 1) THEN Orthogonal2D
                  ELSE IF n = 3 THEN Orthogonal3D
                  ELSE <<>>
        ok == given \/ n = 2 \/ n = 3
    IN [ok |-> ok,
        cells |-> clear(shape),
        compass |-> IF ok THEN BuildCompass(chosen) ELSE <<>>]

\* ------------------------------------------------------------------ state
VARIABLES
    shape,      \* self.cells.shape
    compass,    \* self.compass
    cells,      \* self.cells
    pc,         \* position of the running operation, "idle" between calls
    event,      \* the last event handed to self.event
    start,      \* walk(start): the start cell of the running walk
    current,    \* the current cell of the walk / of the backfill chain
    neigh,      \* the neighbour last computed
    direction,  \* the direction last sampled
    pstart,     \* clearpath/markpath: the local cursor "start"
    pend,       \* clearpath/markpath: the local "end"
    opposite,   \* markpath: the local "opposite"
    stack,      \* the frames of recurse_gen, innermost last
    end,        \* deadend_solve: the end cell (start is shared with walk)
    thecopy,    \* deadend_solve: the scratch copy of the cells
    deadlist,   \* deadend_solve: the dead ends of the sweep not yet processed
    dead,       \* backfill: the local cursor "dead"
    solution,   \* deadend_solve: the solution cells not yet reported
    before,     \* what the running operation found: the HIDDEN mask (a
                \* generation), the cells (a solve)
    supplied,   \* the directions argument of the constructor
    shown,      \* for each cell, the state the events of the running
                \* generation last carried for it (Unseen: none so far)
    arg,        \* the argument of a call of bits, inbound or clear
    result,     \* what that call returned
    looped,     \* the cells as the walk found them when it met its own path,
                \* until that loop is erased
    made,       \* the final cells of the generations a caller has kept
    appstate,   \* App.state
    buttons,    \* which of the Generate, Replay, Solve and Step buttons are
                \* tk.NORMAL
    step_var,   \* App.step_var
    stepper,    \* App.stepper: "none" (lambda : None) or the handler of the
                \* _consumer closure of the last pipeline
    queue,      \* App.queue: None, or the items of the Queue in order
    threads,    \* the producer threads alive, each with the events its
                \* algorithm has still to emit
    pending,    \* the _consumer callbacks scheduled with after(), by handler
    handled,    \* the events handed to a handler since the last pipeline call
    emitted     \* the events put on a queue since the last pipeline call

vars == <<shape, compass, cells, pc, event, start, current, neigh, direction,
          pstart, pend, opposite, stack, end, thecopy, deadlist, dead, solution,
          before, supplied, shown, arg, result, looped, made,
          appstate, buttons, step_var, stepper, queue, threads, pending, handled, emitted>>

mazeVars == <<shape, compass, cells, pc, event, start, current, neigh, direction,
              pstart, pend, opposite, stack, end, thecopy, deadlist, dead, solution,
              before, supplied, shown, arg, result, looped, made>>

appVars == <<appstate, buttons, step_var, stepper, queue, threads, pending, handled, emitted>>

\* self.queue is None
NoQueue == [open |-> FALSE, items |-> <<>>]

\* The buttons as add_widgets creates them: all four tk.DISABLED.
AllDisabled == [generate |-> FALSE, replay |-> FALSE, solve |-> FALSE, step |-> FALSE]

\* App.__init__: State.INITIAL, no queue, no thread, the no-op stepper,
\* "Single step" unchecked.
AppInit ==
    /\ appstate = "INITIAL"
    /\ buttons = AllDisabled
    /\ step_var = 0
    /\ stepper = "none"
    /\ queue = NoQueue
    /\ threads = <<>>
    /\ pending = [gen |-> 0, solve |-> 0]
    /\ handled = <<>>
    /\ emitted = <<>>

NoCoord == <<>>

NoArray == <<>>

\* No call of bits, inbound or clear is under way.
NoCall == <<>>

\* event holds the last event of the running operation, NoEvent between calls.
NoEvent == [event |-> "none"]

\* No event of the running generation has carried the cell.
Unseen == 0 - 1

\* What the listener holds after an event: "cell" is the state of "current";
\* "cells" are the states of "current" and "neighbor".
Shown(had, ev) ==
    IF "cell" \in DOMAIN ev /\ "current" \in DOMAIN ev
    THEN [had EXCEPT ![ev.current] = ev.cell]
    ELSE IF "cells" \in DOMAIN ev
    THEN [[had EXCEPT ![ev.current] = ev.cells[1]] EXCEPT ![ev.neighbor] = ev.cells[2]]
    ELSE had

\* directions = None, and directions = a caller's list.
None == [none |-> TRUE, list |-> <<>>]

Given(list) == [none |-> FALSE, list |-> list]

walkLocals == <<start, current, neigh, direction, pstart, pend, opposite>>

solveLocals == <<end, thecopy, deadlist, dead, solution>>

\* ------------------------------------------------------------------ inputs
RECURSIVE Prod(_)
Prod(s) == IF Len(s) = 0 THEN 1 ELSE s[1] * Prod(Tail(s))

Shapes ==
    {<<n>> : n \in 1 .. MaxCells}
    \cup {s \in (1 .. MaxCells) \X (1 .. MaxCells) : Prod(s) <= MaxCells}
    \cup {s \in (1 .. MaxCells) \X (1 .. MaxCells) \X (1 .. MaxCells) : Prod(s) <= MaxCells}

Hidden(cs) == {c \in DOMAIN cs : BitAnd(cs[c], HIDDEN) # 0}

\* The caller's mask: HIDDEN on the hidden cells, 0 elsewhere.
MaskOf(cs) == [c \in DOMAIN cs |-> IF c \in Hidden(cs) THEN HIDDEN ELSE 0]

\* A caller's compass for a grid of one axis.
Linear1D == << Direction(E, W, "East", <<1>>), Direction(W, E, "West", <<0 - 1>>) >>

\* The grid is built with the default compass, or with a list of the caller
\* whose deltas have one component per axis.
Init ==
    \E s \in Shapes, a \in {None, Given(Hexagonal2D), Given(Linear1D)} :
        LET m == MazeInit(s, ~ a.none, a.list)
        IN /\ \A i \in 1 .. Len(a.list) : Len(a.list[i].deltas) = Len(s)
           /\ m.ok
           /\ supplied = a
           /\ shape = s
           /\ compass = m.compass
           /\ cells = m.cells
           /\ pc = "idle"
           /\ event = NoEvent
           /\ start = NoCoord
           /\ current = NoCoord
           /\ neigh = NoCoord
           /\ direction = 0
           /\ pstart = NoCoord
           /\ pend = NoCoord
           /\ opposite = 0
           /\ stack = <<>>
           /\ end = NoCoord
           /\ thecopy = NoArray
           /\ deadlist = {}
           /\ dead = NoCoord
           /\ solution = <<>>
           /\ before = NoArray
           /\ shown = NoArray
           /\ made = {}
           /\ AppInit
           /\ looped = NoArray
           /\ arg = NoCall
           /\ result = NoCall

\* ------------------------------------------------- the caller's mask edits
\* mazer.py set_hidden / clear_hidden, between two operations.  The caller
\* masks cells of a grid that holds no maze (before generating).
NoMaze(cs) == \A c \in DOMAIN cs : BitAnd(cs[c], INMAZE) = 0

set_hidden(coord) ==
    /\ pc = "idle"
    /\ NoMaze(cells)
    /\ coord \in DOMAIN cells
    /\ BitAnd(cells[coord], HIDDEN) = 0
    /\ Cardinality(Hidden(cells)) < MaxHidden
    /\ cells' = [cells EXCEPT ![coord] = BitOr(@, HIDDEN)]
    /\ UNCHANGED <<shape, compass, pc, event, walkLocals, before, stack, solveLocals, shown, supplied, made, appVars, looped, arg, result>>

clear_hidden(coord) ==
    /\ pc = "idle"
    /\ NoMaze(cells)
    /\ coord \in DOMAIN cells
    /\ BitAnd(cells[coord], HIDDEN) # 0
    /\ cells' = [cells EXCEPT ![coord] = BitClear(@, HIDDEN)]
    /\ UNCHANGED <<shape, compass, pc, event, walkLocals, before, stack, solveLocals, shown, supplied, made, appVars, looped, arg, result>>

\* ------------------------------------------------ whole-grid operations
\* Maze.clean(), called between two operations (mazer.py replay_pressed).
\* before keeps the cells the call found, until it returns.
Clean ==
    /\ pc = "idle"
    /\ cells' = clean(cells)
    /\ before' = cells
    /\ pc' = "cleaned"
    /\ UNCHANGED <<shape, compass, event, walkLocals, stack, solveLocals, shown, supplied, made, appVars, looped, arg, result>>

\* Maze.unsolve(), called between two operations (mazer.py clear_solution).
Unsolve ==
    /\ pc = "idle"
    /\ cells' = unsolve(cells)
    /\ before' = cells
    /\ pc' = "unsolved"
    /\ UNCHANGED <<shape, compass, event, walkLocals, stack, solveLocals, shown, supplied, made, appVars, looped, arg, result>>

\* clear() that only cleans when it is given no shape.
ClearKeepsHidden(given, s) ==
    /\ pc = "idle"
    /\ cells' = IF given THEN clear(s) ELSE clean(cells)
    /\ shape' = IF given THEN s ELSE shape
    /\ arg' = IF given THEN s ELSE NoCoord
    /\ before' = cells
    /\ pc' = "cleared"
    /\ UNCHANGED <<compass, event, walkLocals, stack, solveLocals, shown, supplied, made, appVars, looped, result>>

\* Maze.clear(shape); given = FALSE is clear(), shape=None, which keeps the
\* shape.  arg holds the shape argument until the call returns.
Clear(given, s) ==
    /\ pc = "idle"
    /\ cells' = clear(IF given THEN s ELSE shape)
    /\ shape' = IF given THEN s ELSE shape
    /\ arg' = IF given THEN s ELSE NoCoord
    /\ before' = cells
    /\ pc' = "cleared"
    /\ UNCHANGED <<compass, event, walkLocals, stack, solveLocals, shown, supplied, made, appVars, looped, result>>

\* clean, unsolve or clear returns to its caller.
OpReturn ==
    /\ pc \in {"cleaned", "unsolved", "cleared"}
    /\ pc' = "idle"
    /\ before' = NoArray
    /\ arg' = NoCall
    /\ UNCHANGED <<shape, compass, cells, event, walkLocals, stack, solveLocals, shown, supplied, made, appVars, looped, result>>

\* ------------------------------------------------------ Wilson's algorithm
\* wilsons_generate up to the first event: clean(), then "generating".
wilsons_generate ==
    /\ pc = "idle"
    /\ cells' = clean(cells)
    /\ before' = MaskOf(cells)
    /\ event' = [event |-> "generating"]
    /\ pc' = "w_seed"
    /\ UNCHANGED <<shape, compass, walkLocals, stack, solveLocals, supplied, made, appVars, looped, arg, result>>
    /\ shown' = [c \in DOMAIN cells |-> Unseen]

\* wilsons_generate without its seed cell.
WilsonsSeedSkipped ==
    /\ pc = "w_seed"
    /\ pc' = "w_loop"
    /\ UNCHANGED <<shape, compass, cells, event, walkLocals, before, stack, solveLocals,
                   supplied, made, appVars, looped, arg, result, shown>>

\* if empties[0].size: pick an empty cell and mark it INMAZE.
WilsonsSeed ==
    /\ pc = "w_seed"
    /\ \/ /\ Empties(cells) # {}
          /\ \E coord \in Empties(cells) :
                /\ cells' = [cells EXCEPT ![coord] = INMAZE]
                /\ event' = [event |-> "mark-cell", cell |-> INMAZE, current |-> coord]
       \/ /\ Empties(cells) = {}
          /\ UNCHANGED <<cells, event>>
    /\ pc' = "w_loop"
    /\ UNCHANGED <<shape, compass, walkLocals, before, stack, solveLocals, supplied, made, appVars, looped, arg, result>>
    /\ shown' = Shown(shown, event')

\* A walk entered without its "walk-start" event.
WalkStartSilent ==
    /\ pc = "w_loop"
    /\ Empties(cells) # {}
    /\ \E coord \in Empties(cells) :
          /\ start' = coord
          /\ current' = coord
    /\ pc' = "walk"
    /\ UNCHANGED <<shape, compass, cells, event, neigh, direction, pstart, pend, opposite,
                   before, stack, solveLocals, supplied, made, appVars, looped, arg, result, shown>>

\* while empties[0].size: pick a cell and start a walk from it.
WalkStart ==
    /\ pc = "w_loop"
    /\ Empties(cells) # {}
    /\ \E coord \in Empties(cells) :
          /\ start' = coord
          /\ current' = coord
          /\ event' = [event |-> "walk-start", cell |-> cells[coord], current |-> coord]
    /\ pc' = "walk"
    /\ UNCHANGED <<shape, compass, cells, neigh, direction, pstart, pend, opposite, before, stack, solveLocals, supplied, made, appVars, looped, arg, result>>
    /\ shown' = Shown(shown, event')

\* The loop ends: self.event(event="generated").
WilsonsGenerated ==
    /\ pc = "w_loop"
    /\ Empties(cells) = {}
    /\ event' = [event |-> "generated"]
    /\ pc' = "generated"
    /\ UNCHANGED <<shape, compass, cells, walkLocals, before, stack, solveLocals, shown, supplied, made, appVars, looped, arg, result>>

\* not self.inbound(neigh) or (self.cells[neigh] & Maze.HIDDEN)
Rejected(sh, cs, n) == IF ~ inbound(sh, n) THEN TRUE ELSE BitAnd(cs[n], HIDDEN) # 0

\* self.cells[current] &= ~Maze.DIR; self.cells[current] |= direction
SetArrow(cs, cur, d) == [cs EXCEPT ![cur] = BitOr(BitClear(@, DIR), d)]

\* A rejected sample that records its direction in the current cell first.
WalkRejectRecords ==
    /\ pc = "walk"
    /\ \E d \in DOMAIN compass :
          LET n == Neighbor(current, compass[d].deltas)
          IN /\ Rejected(shape, cells, n)
             /\ direction' = d
             /\ neigh' = n
             /\ cells' = SetArrow(cells, current, d)
    /\ UNCHANGED <<shape, compass, pc, event, start, current, pstart, pend,
                   opposite, before, stack, solveLocals, shown, supplied, made, appVars, looped, arg, result>>

\* One sample of the walk loop whose neighbour is out of bounds or hidden.
WalkReject ==
    /\ pc = "walk"
    /\ \E d \in DOMAIN compass :
          LET n == Neighbor(current, compass[d].deltas)
          IN /\ Rejected(shape, cells, n)
             /\ direction' = d
             /\ neigh' = n
    /\ UNCHANGED <<shape, compass, cells, pc, event, start, current, pstart, pend,
                   opposite, before, stack, solveLocals, shown, supplied, made, appVars, looped, arg, result>>

\* The neighbour is in the maze: record the arrow, "walk-end", enter markpath.
WalkEnd ==
    /\ pc = "walk"
    /\ \E d \in DOMAIN compass :
          LET n == Neighbor(current, compass[d].deltas)
              cs == SetArrow(cells, current, d)
          IN /\ ~ Rejected(shape, cells, n)
             /\ BitAnd(cells[n], INMAZE) # 0
             /\ direction' = d
             /\ neigh' = n
             /\ cells' = cs
             /\ event' = [event |-> "walk-end", cells |-> <<cs[current], cs[n]>>,
                          current |-> current, neighbor |-> n]
             /\ pstart' = start
             /\ pend' = n
             /\ opposite' = 0
    /\ pc' = "markpath"
    /\ UNCHANGED <<shape, compass, start, current, before, stack, solveLocals, supplied, made, appVars, looped, arg, result>>
    /\ shown' = Shown(shown, event')

\* One iteration of markpath's loop that leaves the opposite bit out.
MarkStepOneWay ==
    /\ pc = "markpath"
    /\ pstart # pend
    /\ LET dir == BitAnd(cells[pstart], DIR)
           cs == [cells EXCEPT ![pstart] = BitOr(@, INMAZE)]
       IN /\ cells' = cs
          /\ opposite' = compass[dir].opposite
          /\ event' = [event |-> "mark-cell", cell |-> cs[pstart], current |-> pstart]
          /\ pstart' = Neighbor(pstart, compass[dir].deltas)
    /\ UNCHANGED <<shape, compass, pc, start, current, neigh, direction, pend, before, stack,
                   solveLocals, supplied, made, appVars, looped, arg, result>>
    /\ shown' = Shown(shown, event')

\* One iteration of markpath's loop (start != end).
MarkStep ==
    /\ pc = "markpath"
    /\ pstart # pend
    /\ LET dir == BitAnd(cells[pstart], DIR)
           cs == [cells EXCEPT ![pstart] = BitOr(@, BitOr(opposite, INMAZE))]
       IN /\ cells' = cs
          /\ opposite' = compass[dir].opposite
          /\ event' = [event |-> "mark-cell", cell |-> cs[pstart], current |-> pstart]
          /\ pstart' = Neighbor(pstart, compass[dir].deltas)
    /\ UNCHANGED <<shape, compass, pc, start, current, neigh, direction, pend, before, stack, solveLocals, supplied, made, appVars, looped, arg, result>>
    /\ shown' = Shown(shown, event')

\* markpath ending with self.cells[end] = opposite.
MarkDoneAssigns ==
    /\ pc = "markpath"
    /\ pstart = pend
    /\ cells' = [cells EXCEPT ![pend] = opposite]
    /\ event' = [event |-> "walked"]
    /\ pc' = "w_loop"
    /\ start' = NoCoord
    /\ current' = NoCoord
    /\ neigh' = NoCoord
    /\ direction' = 0
    /\ pstart' = NoCoord
    /\ pend' = NoCoord
    /\ opposite' = 0
    /\ UNCHANGED <<shape, compass, before, stack, solveLocals, shown, supplied, made, appVars, looped, arg, result>>

\* markpath's loop ends: self.cells[end] |= opposite; the walk is over: "walked".
MarkDone ==
    /\ pc = "markpath"
    /\ pstart = pend
    /\ cells' = [cells EXCEPT ![pend] = BitOr(@, opposite)]
    /\ event' = [event |-> "walked"]
    /\ pc' = "w_loop"
    /\ start' = NoCoord
    /\ current' = NoCoord
    /\ neigh' = NoCoord
    /\ direction' = 0
    /\ pstart' = NoCoord
    /\ pend' = NoCoord
    /\ opposite' = 0
    /\ UNCHANGED <<shape, compass, before, stack, solveLocals, shown, supplied, made, appVars, looped, arg, result>>

\* The neighbour carries an arrow of this walk: "walk-loop", record the arrow,
\* enter clearpath(neigh, current).
WalkLoop ==
    /\ pc = "walk"
    /\ \E d \in DOMAIN compass :
          LET n == Neighbor(current, compass[d].deltas)
          IN /\ ~ Rejected(shape, cells, n)
             /\ BitAnd(cells[n], INMAZE) = 0
             /\ BitAnd(cells[n], DIR) # 0
             /\ direction' = d
             /\ neigh' = n
             /\ event' = [event |-> "walk-loop", cells |-> <<cells[current], cells[n]>>,
                          current |-> current, neighbor |-> n]
             /\ cells' = SetArrow(cells, current, d)
             /\ pstart' = n
             /\ pend' = current
    /\ pc' = "clearpath"
    /\ UNCHANGED <<shape, compass, start, current, opposite, before, stack, solveLocals, supplied, made, appVars, arg, result>>
    /\ shown' = Shown(shown, event')
    /\ looped' = cells

\* An iteration of clearpath that leaves the arrow in the cell.
ClearStepKeepsArrow ==
    /\ pc = "clearpath"
    /\ pstart # pend
    /\ LET dir == BitAnd(cells[pstart], DIR)
           cs == cells
       IN /\ cells' = cs
          /\ event' = [event |-> "clear-cell", cell |-> cs[pstart], current |-> pstart]
          /\ pstart' = Neighbor(pstart, compass[dir].deltas)
    /\ UNCHANGED <<shape, compass, pc, start, current, neigh, direction, pend, opposite,
                   before, stack, solveLocals, supplied, made, appVars, looped, arg, result>>
    /\ shown' = Shown(shown, event')

\* One iteration of clearpath's loop (start != end).
ClearStep ==
    /\ pc = "clearpath"
    /\ pstart # pend
    /\ LET dir == BitAnd(cells[pstart], DIR)
           cs == [cells EXCEPT ![pstart] = BitClear(@, DIR)]
       IN /\ cells' = cs
          /\ event' = [event |-> "clear-cell", cell |-> cs[pstart], current |-> pstart]
          /\ pstart' = Neighbor(pstart, compass[dir].deltas)
    /\ UNCHANGED <<shape, compass, pc, start, current, neigh, direction, pend, opposite,
                   before, stack, solveLocals, supplied, made, appVars, looped, arg, result>>
    /\ shown' = Shown(shown, event')

\* clearpath's end without forgetting the arrow of the last try.
ClearDoneKeepsArrow ==
    /\ pc = "clearpath"
    /\ pstart = pend
    /\ cells' = cells
    /\ current' = neigh
    /\ pstart' = NoCoord
    /\ pend' = NoCoord
    /\ pc' = "walk"
    /\ UNCHANGED <<shape, compass, event, start, neigh, direction, opposite, before, stack, solveLocals, shown, supplied, made, appVars, arg, result>>
    /\ looped' = NoArray

\* clearpath's loop ends: forget the last arrow and resume from the neighbour.
ClearDone ==
    /\ pc = "clearpath"
    /\ pstart = pend
    /\ cells' = [cells EXCEPT ![current] = BitClear(@, DIR)]
    /\ current' = neigh
    /\ pstart' = NoCoord
    /\ pend' = NoCoord
    /\ pc' = "walk"
    /\ UNCHANGED <<shape, compass, event, start, neigh, direction, opposite, before, stack, solveLocals, shown, supplied, made, appVars, arg, result>>
    /\ looped' = NoArray

\* The neighbour is empty and unvisited: record the arrow, "walk-step", advance.
WalkStep ==
    /\ pc = "walk"
    /\ \E d \in DOMAIN compass :
          LET n == Neighbor(current, compass[d].deltas)
              cs == SetArrow(cells, current, d)
          IN /\ ~ Rejected(shape, cells, n)
             /\ BitAnd(cells[n], INMAZE) = 0
             /\ BitAnd(cells[n], DIR) = 0
             /\ direction' = d
             /\ neigh' = n
             /\ cells' = cs
             /\ event' = [event |-> "walk-step", cells |-> <<cs[current], cs[n]>>,
                          current |-> current, neighbor |-> n]
             /\ current' = n
    /\ UNCHANGED <<shape, compass, pc, start, pstart, pend, opposite, before, stack, solveLocals, supplied, made, appVars, looped, arg, result>>
    /\ shown' = Shown(shown, event')

\* --------------------------------------------------- recursive backtracker
\* recursive_generate up to the first event: clean(), then "generating".
recursive_generate ==
    /\ pc = "idle"
    /\ cells' = clean(cells)
    /\ before' = MaskOf(cells)
    /\ event' = [event |-> "generating"]
    /\ pc' = "r_loop"
    /\ UNCHANGED <<shape, compass, walkLocals, stack, solveLocals, supplied, made, appVars, looped, arg, result>>
    /\ shown' = [c \in DOMAIN cells |-> Unseen]

\* while empties[0].size: pick a random empty cell and call recurse_gen on it.
RecursivePick ==
    /\ pc = "r_loop"
    /\ Empties(cells) # {}
    /\ \E coord \in Empties(cells) :
          stack' = <<[current |-> coord, directions |-> {}]>>
    /\ pc' = "r_enter"
    /\ UNCHANGED <<shape, compass, cells, event, walkLocals, solveLocals, before, shown, supplied, made, appVars, looped, arg, result>>

\* recursive_generate with "if" for "while": it ends after one recurse_gen.
RecursiveGeneratedEarly ==
    /\ pc = "r_loop"
    /\ event' = [event |-> "generated"]
    /\ pc' = "generated"
    /\ UNCHANGED <<shape, compass, cells, walkLocals, stack, solveLocals, before, shown, supplied, made, appVars, looped, arg, result>>

\* The loop ends: self.event(event="generated").
RecursiveGenerated ==
    /\ pc = "r_loop"
    /\ Empties(cells) = {}
    /\ event' = [event |-> "generated"]
    /\ pc' = "generated"
    /\ UNCHANGED <<shape, compass, cells, walkLocals, stack, solveLocals, before, shown, supplied, made, appVars, looped, arg, result>>

\* The directions recurse_gen has yet to try.  rand.shuffle fixes their order
\* at entry; the model draws that order one element at a time, as the for
\* loop consumes it.
Shuffled(keys) == keys

\* Entry of recurse_gen(current): mark the cell, "mark-cell", shuffle.
RecurseEnter ==
    /\ pc = "r_enter"
    /\ LET top == stack[Len(stack)]
           cs == [cells EXCEPT ![top.current] = BitOr(@, INMAZE)]
       IN /\ cells' = cs
          /\ event' = [event |-> "mark-cell", cell |-> cs[top.current],
                       current |-> top.current]
          /\ stack' = [stack EXCEPT ![Len(stack)].directions = Shuffled(DOMAIN compass)]
    /\ pc' = "r_for"
    /\ UNCHANGED <<shape, compass, walkLocals, solveLocals, before, supplied, made, appVars, looped, arg, result>>
    /\ shown' = Shown(shown, event')

\* not self.inbound(neigh) or (self.cells[neigh] & Maze.INUSE)
InUse(sh, cs, n) == IF ~ inbound(sh, n) THEN TRUE ELSE BitAnd(cs[n], INUSE) # 0

\* The directions of a frame that would still open a passage.  A turn of the
\* for loop whose neighbour is out of bounds or in use is a bare "continue":
\* it changes nothing and emits nothing, and a neighbour once in use stays so
\* for the rest of the run, so these turns are folded into the next step.
Open(sh, cm, cs, frame) ==
    {d \in frame.directions : ~ InUse(sh, cs, Neighbor(frame.current, cm[d].deltas))}

\* The for loop reaches a direction that opens a passage, and recurses.
RecurseOpen ==
    /\ pc = "r_for"
    /\ LET top == stack[Len(stack)]
       IN \E d \in Open(shape, compass, cells, top) :
             LET n == Neighbor(top.current, compass[d].deltas)
                 cs == [cells EXCEPT ![top.current] = BitOr(@, d)]
             IN /\ event' = [event |-> "mark-cell", cell |-> cs[top.current],
                             current |-> top.current]
                /\ cells' = [cs EXCEPT ![n] = BitOr(@, BitOr(INMAZE, compass[d].opposite))]
                /\ stack' = Append([stack EXCEPT ![Len(stack)].directions =
                                        Open(shape, compass, cells, top) \ {d}],
                                   [current |-> n, directions |-> {}])
    /\ pc' = "r_enter"
    /\ UNCHANGED <<shape, compass, walkLocals, solveLocals, before, supplied, made, appVars, looped, arg, result>>
    /\ shown' = Shown(shown, event')

\* The for loop of the innermost recurse_gen runs out: it returns.
RecurseReturn ==
    /\ pc = "r_for"
    /\ Open(shape, compass, cells, stack[Len(stack)]) = {}
    /\ stack' = SubSeq(stack, 1, Len(stack) - 1)
    /\ pc' = IF Len(stack) = 1 THEN "r_loop" ELSE "r_for"
    /\ UNCHANGED <<shape, compass, cells, event, walkLocals, solveLocals, before, shown, supplied, made, appVars, looped, arg, result>>

\* ------------------------------------------------------- dead-end solver
\* bits appending at the front: the set bits of n, highest first.
RECURSIVE bitsHighestFirst(_)
bitsHighestFirst(n) ==
    IF n = 0 THEN <<>>
    ELSE LET i == BitAnd(n - 1, n)
         IN bitsHighestFirst(i) \o <<BitXor(i, n)>>

\* Maze.bits(n): the set bits of n, lowest first.
RECURSIVE bits(_)
bits(n) ==
    IF n = 0 THEN <<>>
    ELSE LET i == BitAnd(n - 1, n)
         IN <<BitXor(i, n)>> \o bits(i)

countdoors(cell) == Len(bits(BitAnd(cell, DIR)))

\* numpy indexing of an array of shape sh by the tuple idx: a negative
\* component counts from the end, a component outside [-dim, dim) or a tuple
\* of another arity raises.  (A shorter tuple would select a sub-array; no
\* door bit exists under a compass of another arity, so it never indexes.)
IndexOK(sh, idx) ==
    IF Len(idx) # Len(sh) THEN FALSE
    ELSE \A i \in 1 .. Len(idx) : idx[i] >= 0 - sh[i] /\ idx[i] < sh[i]

At(sh, idx) == [i \in 1 .. Len(idx) |-> IF idx[i] < 0 THEN idx[i] + sh[i] ELSE idx[i]]

\* The coordinates of a set in row-major order, as a sequence.
RECURSIVE InOrder(_)
InOrder(set) ==
    IF set = {} THEN <<>>
    ELSE LET first == CHOOSE c \in set : \A o \in set \ {c} : Before(c, o)
         IN <<first>> \o InOrder(set \ {first})

\* What map(...) returns: an iterator, equal to no coordinate tuple.
MapObject(values) == <<"map object">> \o values

\* The candidates of random_start: coord[0] runs over range(shape[0]), the
\* other components stay 0.
StartCandidates(sh, cs) ==
    {c \in DOMAIN cs : (\A i \in 2 .. Len(sh) : c[i] = 0) /\ BitAnd(cs[c], HIDDEN) = 0}

\* The candidates of random_end: coord[0] runs over range(shape[0]), the
\* other components stay max(0, dim - 1).
EndCandidates(sh, cs) ==
    {c \in DOMAIN cs : (\A i \in 2 .. Len(sh) : c[i] = sh[i] - 1) /\ BitAnd(cs[c], HIDDEN) = 0}

\* deadend_solve(start=s, end=e) up to the call of random_start; NoCoord is None.
deadend_solve(s, e) ==
    /\ pc = "idle"
    /\ start' = s
    /\ end' = e
    /\ before' = cells
    /\ pc' = "s_start"
    /\ UNCHANGED <<shape, compass, cells, event, current, neigh, direction, pstart, pend,
                   opposite, stack, thecopy, deadlist, dead, solution, shown, supplied, made, appVars, looped, arg, result>>

\* start = self.random_start(start = start)
random_start ==
    /\ pc = "s_start"
    /\ IF start # NoCoord
       THEN UNCHANGED <<start, event>>
       ELSE IF Len(shape) < 2 \/ Len(shape) > 3
       THEN LET coord == MapObject([i \in 1 .. Len(shape) |-> 0])
            IN /\ start' = coord
               /\ event' = [event |-> "random-start", start |-> coord]
       ELSE IF StartCandidates(shape, cells) = {}
       THEN LET coord == [i \in 1 .. Len(shape) |-> 0]
            IN /\ start' = coord
               /\ event' = [event |-> "random-start", start |-> coord]
       ELSE \E coord \in StartCandidates(shape, cells) :
               /\ start' = coord
               /\ event' = [event |-> "random-start", start |-> coord]
    /\ pc' = "s_end"
    /\ UNCHANGED <<shape, compass, cells, current, neigh, direction, pstart, pend,
                   opposite, stack, solveLocals, before, shown, supplied, made, appVars, looped, arg, result>>

\* end = self.random_end(end = end); thecopy = np.copy(self.cells)
random_end ==
    /\ pc = "s_end"
    /\ IF end # NoCoord
       THEN UNCHANGED <<end, event>>
       ELSE IF Len(shape) < 2 \/ Len(shape) > 3
       THEN LET coord == MapObject([i \in 1 .. Len(shape) |-> shape[i] - 1])
            IN /\ end' = coord
               /\ event' = [event |-> "random-start", start |-> coord]
       ELSE IF EndCandidates(shape, cells) = {}
       THEN LET coord == [i \in 1 .. Len(shape) |-> shape[i] - 1]
            IN /\ end' = coord
               /\ event' = [event |-> "random-end", end |-> coord]
       ELSE \E coord \in EndCandidates(shape, cells) :
               /\ end' = coord
               /\ event' = [event |-> "random-end", end |-> coord]
    /\ thecopy' = cells
    /\ pc' = "s_sweep"
    /\ UNCHANGED <<shape, compass, cells, walkLocals, stack, deadlist, dead, solution,
                   before, shown, supplied, made, appVars, looped, arg, result>>

\* The sweep without its filter on start and end.
DeadEndsUnfiltered(copy, st, en) ==
    {c \in DOMAIN copy : countdoors(copy[c]) = 1}

\* The dead ends of one sweep: the cells with exactly one door, start and end
\* left out.
DeadEnds(copy, st, en) ==
    {c \in DOMAIN copy : countdoors(copy[c]) = 1 /\ c # st /\ c # en}

\* ((thecopy & (NOTSOLUTION | HIDDEN)) == 0).nonzero()
SolutionCells(copy) ==
    {c \in DOMAIN copy : BitAnd(copy[c], BitOr(NOTSOLUTION, HIDDEN)) = 0}

\* One turn of "while True": list the dead ends; none left ends the loop.
Sweep ==
    /\ pc = "s_sweep"
    /\ LET found == DeadEnds(thecopy, start, end)
       IN IF found = {}
          THEN /\ solution' = InOrder(SolutionCells(thecopy))
               /\ pc' = "s_report"
               /\ UNCHANGED deadlist
          ELSE /\ deadlist' = found
               /\ pc' = "s_dead"
               /\ UNCHANGED solution
    /\ UNCHANGED <<shape, compass, cells, event, walkLocals, stack, end, thecopy, dead,
                   before, shown, supplied, made, appVars, looped, arg, result>>

\* "for dead in deadlist" over the shuffled list: rand.shuffle fixes the order,
\* the model draws it one element at a time.
NextDead ==
    /\ pc = "s_dead"
    /\ IF deadlist = {}
       THEN /\ pc' = "s_sweep"
            /\ UNCHANGED <<deadlist, dead>>
       ELSE /\ \E x \in deadlist :
                  /\ dead' = x
                  /\ deadlist' = deadlist \ {x}
            /\ pc' = "s_backfill"
    /\ UNCHANGED <<shape, compass, cells, event, walkLocals, stack, end, thecopy, solution,
                   before, shown, supplied, made, appVars, looped, arg, result>>

\* backfill storing through an alias of self.cells (no np.copy).
BackfillStoreAlias(own, copy, idx, val) ==
    [own |-> [own EXCEPT ![idx] = val], copy |-> [copy EXCEPT ![idx] = val]]

\* The grid's storage and the scratch copy after backfill stores val at idx.
BackfillStore(own, copy, idx, val) == [own |-> own, copy |-> [copy EXCEPT ![idx] = val]]

\* The body of backfill's while loop for the cell at, which has one door in
\* copy: mark it NOTSOLUTION, close the door on both sides, move to the
\* neighbour.  raised: thecopy[neigh] raised IndexError; more: no break.
\* The cursor keeps the coordinate as computed; a negative component indexes
\* from the end of its axis.
BackfillBody(sh, cm, own, copy, at, st, en) ==
    LET a == At(sh, at)
        marked == BackfillStore(own, copy, a, BitOr(copy[a], NOTSOLUTION))
        d == BitAnd(marked.copy[a], DIR)
        n == Neighbor(at, cm[d].deltas)
        closed == BackfillStore(marked.own, marked.copy, a, BitClear(marked.copy[a], d))
        both == BackfillStore(closed.own, closed.copy, At(sh, n),
                              BitClear(closed.copy[At(sh, n)], cm[d].opposite))
    IN IF ~ IndexOK(sh, n)
       THEN [own |-> closed.own, copy |-> closed.copy, dead |-> at, seen |-> marked.own[a],
             raised |-> TRUE, more |-> FALSE]
       ELSE [own |-> both.own, copy |-> both.copy, dead |-> n,
             seen |-> marked.own[a], raised |-> FALSE, more |-> ~ (n = st \/ n = en)]

\* An iteration of backfill that marks the cell and moves on, leaving the
\* doors of the copy open.
BackfillStepKeepsDoors ==
    /\ pc = "s_backfill"
    /\ countdoors(thecopy[At(shape, dead)]) = 1
    /\ LET r == BackfillBody(shape, compass, cells, thecopy, dead, start, end)
       IN /\ event' = [event |-> "dead-end", current |-> dead, cell |-> r.seen]
          /\ cells' = r.own
          /\ thecopy' = [thecopy EXCEPT ![At(shape, dead)] = BitOr(@, NOTSOLUTION)]
          /\ dead' = r.dead
          /\ pc' = IF r.raised THEN "raised" ELSE IF r.more THEN "s_backfill" ELSE "s_dead"
    /\ UNCHANGED <<shape, compass, walkLocals, stack, end, deadlist, solution, before, shown,
                   supplied, made, appVars, looped, arg, result>>

\* One iteration of backfill's while loop: countdoors(thecopy[dead]) == 1.
BackfillStep ==
    /\ pc = "s_backfill"
    /\ countdoors(thecopy[At(shape, dead)]) = 1
    /\ LET r == BackfillBody(shape, compass, cells, thecopy, dead, start, end)
       IN /\ event' = [event |-> "dead-end", current |-> dead, cell |-> r.seen]
          /\ cells' = r.own
          /\ thecopy' = r.copy
          /\ dead' = r.dead
          /\ pc' = IF r.raised THEN "raised" ELSE IF r.more THEN "s_backfill" ELSE "s_dead"
    /\ UNCHANGED <<shape, compass, walkLocals, stack, end, deadlist, solution, before, shown, supplied, made, appVars, looped, arg, result>>

\* backfill's while loop ends: thecopy[dead] has no door, or several.
BackfillEnd ==
    /\ pc = "s_backfill"
    /\ countdoors(thecopy[At(shape, dead)]) # 1
    /\ pc' = "s_dead"
    /\ UNCHANGED <<shape, compass, cells, event, walkLocals, stack, solveLocals, before, shown, supplied, made, appVars, looped, arg, result>>

\* One turn of the loop over the solution cells: "solution".
ReportSolution ==
    /\ pc = "s_report"
    /\ solution # <<>>
    /\ event' = [event |-> "solution", current |-> Head(solution),
                 cell |-> cells[Head(solution)]]
    /\ solution' = Tail(solution)
    /\ UNCHANGED <<shape, compass, cells, pc, walkLocals, stack, end, thecopy, deadlist,
                   dead, before, shown, supplied, made, appVars, looped, arg, result>>

\* The loop is over: "solved".
Solved ==
    /\ pc = "s_report"
    /\ solution = <<>>
    /\ event' = [event |-> "solved", start |-> start, end |-> end]
    /\ pc' = "solved"
    /\ UNCHANGED <<shape, compass, cells, walkLocals, stack, solveLocals, before, shown, supplied, made, appVars, looped, arg, result>>

\* deadend_solve returns to its caller; its locals are gone.
SolveReturn ==
    /\ pc = "solved"
    /\ pc' = "idle"
    /\ event' = NoEvent
    /\ start' = NoCoord
    /\ end' = NoCoord
    /\ thecopy' = NoArray
    /\ dead' = NoCoord
    /\ before' = NoArray
    /\ UNCHANGED <<shape, compass, cells, current, neigh, direction, pstart, pend, opposite,
                   stack, deadlist, solution, shown, supplied, made, appVars, looped, arg, result>>

\* The generator returns to its caller.
GenReturn ==
    /\ pc = "generated"
    /\ pc' = "idle"
    /\ event' = NoEvent
    /\ before' = NoArray
    /\ UNCHANGED <<shape, compass, cells, walkLocals, stack, solveLocals, supplied, made, appVars, looped, arg, result>>
    /\ shown' = NoArray

Next ==
    \/ \E coord \in DOMAIN cells : set_hidden(coord)
    \/ \E coord \in DOMAIN cells : clear_hidden(coord)
    \/ Clean
    \/ Unsolve
    \/ \E given \in BOOLEAN, s \in {x \in Shapes : Len(x) = Len(shape)} : Clear(given, s)
    \/ OpReturn
    \/ wilsons_generate
    \/ WilsonsSeed
    \/ WalkStart
    \/ WilsonsGenerated
    \/ WalkReject
    \/ WalkEnd
    \/ MarkStep
    \/ MarkDone
    \/ WalkLoop
    \/ ClearStep
    \/ ClearDone
    \/ WalkStep
    \/ recursive_generate
    \/ RecursivePick
    \/ RecursiveGenerated
    \/ RecurseEnter
    \/ RecurseOpen
    \/ RecurseReturn
    \/ GenReturn
    \/ \E s \in DOMAIN cells \cup {NoCoord}, e \in DOMAIN cells \cup {NoCoord} :
          deadend_solve(s, e)
    \/ random_start
    \/ random_end
    \/ Sweep
    \/ NextDead
    \/ BackfillStep
    \/ BackfillEnd
    \/ ReportSolution
    \/ Solved
    \/ SolveReturn

Spec == Init /\ [][Next]_vars

\* ------------------------------------- the whole-grid operations alone
\* cells is the grid's public storage, which callers read and write directly
\* (mazer.py set_hidden, clear_hidden); the values a cell is given here.
CellValues ==
    {0, INMAZE, HIDDEN, HIDDEN + INMAZE + N, INMAZE + E + SOLUTION,
     INMAZE + S + NOTSOLUTION, BitOr(STATE_MASK, DIR)}

OpShapes == {s \in Shapes : Len(s) >= 2 /\ Prod(s) <= MaxOpCells}

InitCells ==
    \E s \in OpShapes :
        LET m == MazeInit(s, FALSE, Orthogonal2D)
        IN /\ shape = s
           /\ supplied = None
           /\ compass = m.compass
           /\ cells \in [Coords(s) -> CellValues]
           /\ pc = "idle"
           /\ event = NoEvent
           /\ start = NoCoord
           /\ current = NoCoord
           /\ neigh = NoCoord
           /\ direction = 0
           /\ pstart = NoCoord
           /\ pend = NoCoord
           /\ opposite = 0
           /\ stack = <<>>
           /\ end = NoCoord
           /\ thecopy = NoArray
           /\ deadlist = {}
           /\ dead = NoCoord
           /\ solution = <<>>
           /\ before = NoArray
           /\ shown = NoArray
           /\ made = {}
           /\ AppInit
           /\ looped = NoArray
           /\ arg = NoCall
           /\ result = NoCall

NextCells ==
    \/ Clean
    \/ Unsolve
    \/ \E given \in BOOLEAN, s \in {x \in OpShapes : Len(x) = Len(shape)} : Clear(given, s)
    \/ OpReturn

SpecCells == InitCells /\ [][NextCells]_vars

\* ------------------------------------------------------ the passage graph
Door(cell, d) == BitAnd(cell, d) # 0

NonHidden(cs) == DOMAIN cs \ Hidden(cs)

InMaze(cs) == {c \in DOMAIN cs : BitAnd(cs[c], INMAZE) # 0}

\* The cell a door bit d of cell a leads to (possibly out of bounds).
Toward(cm, a, d) == Neighbor(a, cm[d].deltas)

\* The passages among the cells of a set: the pairs {a, b} such that a has a
\* door bit leading to b.
Passages(cm, cs, among) ==
    {{a, b} : a \in among, b \in among} \cap
    UNION {{{a, Toward(cm, a, d)} : d \in {x \in DOMAIN cm : Door(cs[a], x)}} : a \in among}

RECURSIVE DoorBits(_, _)
DoorBits(cs, among) ==
    IF among = {} THEN 0
    ELSE LET c == CHOOSE x \in among : TRUE
         IN countdoors(cs[c]) + DoorBits(cs, among \ {c})

RECURSIVE Grow(_, _)
Grow(edges, set) ==
    LET more == set \cup UNION {e \in edges : e \cap set # {}}
    IN IF more = set THEN set ELSE Grow(edges, more)

Connected(nodes, edges) ==
    \/ nodes = {}
    \/ Grow(edges, {CHOOSE r \in nodes : TRUE}) = nodes

\* N - 1 passages, 2(N - 1) door bits, connected (hence acyclic).
IsSpanningTree(cm, cs, nodes) ==
    LET n == Cardinality(nodes)
        p == Passages(cm, cs, nodes)
    IN n >= 1 =>
          /\ Cardinality(p) = n - 1
          /\ DoorBits(cs, DOMAIN cs) = 2 * (n - 1)
          /\ Connected(nodes, p)

\* A has the bit d toward B iff B has the opposite bit, for adjacent in-maze cells.
Symmetric(sh, cm, cs) ==
    \A a \in InMaze(cs), d \in DOMAIN cm :
        LET b == Toward(cm, a, d)
        IN IF inbound(sh, b)
           THEN b \in InMaze(cs) => (Door(cs[a], d) <=> Door(cs[b], cm[d].opposite))
           ELSE TRUE

\* --------------------------------------- the solver in list order
\* The scratch copy deadend_solve ends with when the shuffle leaves each
\* sweep's dead ends in the order found (row-major).
RECURSIVE FillFrom(_, _, _, _, _, _)
FillFrom(sh, cm, copy, at, st, en) ==
    IF countdoors(copy[At(sh, at)]) # 1 THEN [copy |-> copy, raised |-> FALSE]
    ELSE LET r == BackfillBody(sh, cm, copy, copy, at, st, en)
         IN IF r.raised \/ ~ r.more THEN [copy |-> r.copy, raised |-> r.raised]
            ELSE FillFrom(sh, cm, r.copy, r.dead, st, en)

RECURSIVE FillList(_, _, _, _, _, _)
FillList(sh, cm, copy, list, st, en) ==
    IF list = <<>> THEN [copy |-> copy, raised |-> FALSE]
    ELSE LET r == FillFrom(sh, cm, copy, Head(list), st, en)
         IN IF r.raised THEN r ELSE FillList(sh, cm, r.copy, Tail(list), st, en)

RECURSIVE SolveInOrder(_, _, _, _, _)
SolveInOrder(sh, cm, copy, st, en) ==
    LET found == DeadEnds(copy, st, en)
    IN IF found = {} THEN [copy |-> copy, raised |-> FALSE]
       ELSE LET r == FillList(sh, cm, copy, InOrder(found), st, en)
            IN IF r.raised THEN r ELSE SolveInOrder(sh, cm, r.copy, st, en)

\* --------------------------------------------------- the constructor alone
\* Shapes of one axis and more; a caller's list whose opposites name no
\* direction of the list.
NewShapes == UNION {[1 .. n -> 1 .. MaxDim] : n \in 1 .. MaxAxes}

OneWay == << Direction(E, W, "East", <<1, 0>>), Direction(S, N, "South", <<0, 1>>) >>

Arguments == {None} \cup {Given(l) : l \in {Orthogonal2D, Orthogonal3D, Hexagonal2D, OneWay}}

InitNew ==
    /\ shape \in NewShapes
    /\ supplied \in Arguments
    /\ compass = <<>>
    /\ cells = NoArray
    /\ pc = "new"
    /\ event = NoEvent
    /\ start = NoCoord
    /\ current = NoCoord
    /\ neigh = NoCoord
    /\ direction = 0
    /\ pstart = NoCoord
    /\ pend = NoCoord
    /\ opposite = 0
    /\ stack = <<>>
    /\ end = NoCoord
    /\ thecopy = NoArray
    /\ deadlist = {}
    /\ dead = NoCoord
    /\ solution = <<>>
    /\ before = NoArray
    /\ shown = NoArray
    /\ made = {}
    /\ AppInit
    /\ looped = NoArray
    /\ arg = NoCall
    /\ result = NoCall

\* Maze(shape, directions=supplied): the grid is zeroed, then the compass is
\* built, or ValueError is raised.
MazeNew ==
    /\ pc = "new"
    /\ LET m == MazeInit(shape, ~ supplied.none, supplied.list)
       IN /\ cells' = m.cells
          /\ compass' = m.compass
          /\ pc' = IF m.ok THEN "idle" ELSE "raised"
    /\ UNCHANGED <<shape, event, walkLocals, stack, solveLocals, before, supplied, made, appVars, looped, arg, result, shown>>

NextNew == MazeNew

SpecNew == InitNew /\ [][NextNew]_vars

\* ----------------------------------------------------------------- claims
\* C1: when a generator has emitted "generated", the passages over the
\* non-hidden cells form a spanning tree: N - 1 passages and 2(N - 1) door
\* bits for N non-hidden cells, connected and acyclic.
C1_SpanningTree ==
    pc = "generated" => IsSpanningTree(compass, cells, NonHidden(cells))

\* C2: when a generator has emitted "generated", for adjacent in-maze cells A
\* and B = A + delta(d), A has the bit d iff B has the bit opposite(d).
C2_DoorSymmetry ==
    pc = "generated" => Symmetric(shape, compass, cells)

\* C3: "generated" is emitted only when every non-hidden cell is INMAZE.
C3_GeneratedOnlyWhenFull ==
    event.event = "generated" =>
        \A c \in DOMAIN cells : BitAnd(cells[c], HIDDEN) = 0 => BitAnd(cells[c], INMAZE) # 0

\* A generation over a masked grid has ended with three or more cells in the maze.
C3_Witness ==
    /\ event.event = "generated"
    /\ Hidden(cells) # {}
    /\ Cardinality(InMaze(cells)) >= 3

\* C4: Wilson's algorithm terminates under fair random choice.  A walk ends
\* only through a sample that is not rejected, so termination requires that a
\* running walk always has one: where none exists every later sample is
\* rejected and "generated" is never emitted.
C4_WalkCanAdvance ==
    pc = "walk" => ENABLED (WalkEnd \/ WalkLoop \/ WalkStep)


\* The cells deadend_solve has reported as "solution" so far.
Reported == SolutionCells(thecopy) \ {solution[i] : i \in 1 .. Len(solution)}

\* The grid holds a tree maze: every non-hidden cell is INMAZE, every hidden
\* cell is bare, every door leads to a non-hidden cell of the grid, the
\* passages are symmetric and form a spanning tree.
TreeMaze(sh, cm, cs) ==
    /\ NonHidden(cs) # {}
    /\ \A c \in DOMAIN cs :
          IF c \in Hidden(cs) THEN cs[c] = HIDDEN ELSE BitAnd(cs[c], INMAZE) # 0
    /\ \A c \in DOMAIN cs : \A d \in DOMAIN cm :
          Door(cs[c], d) => Toward(cm, c, d) \in NonHidden(cs)
    /\ Symmetric(sh, cm, cs)
    /\ IsSpanningTree(cm, cs, NonHidden(cs))

\* The open directions of cell c that lead to a cell of the set.
DoorsInto(cm, cs, c, set) ==
    {d \in DOMAIN cm : Door(cs[c], d) /\ Toward(cm, c, d) \in set}

\* C5: on a tree maze, with start and end non-hidden cells of the grid, the
\* cells reported as "solution" are one simple path from start to end: both
\* are in the set, the set is connected, every other cell of it has exactly
\* two open directions into the set, and start and end have one (none when
\* start = end).
C5_SolutionIsPath ==
    (/\ pc = "solved"
     /\ TreeMaze(shape, compass, cells)
     /\ start \in NonHidden(cells)
     /\ end \in NonHidden(cells))
    => /\ start \in Reported
       /\ end \in Reported
       /\ Connected(Reported, Passages(compass, cells, Reported))
       /\ \A c \in Reported \ {start, end} :
             Cardinality(DoorsInto(compass, cells, c, Reported)) = 2
       /\ \A c \in {start, end} :
             Cardinality(DoorsInto(compass, cells, c, Reported))
                = IF start = end THEN 0 ELSE 1

\* A tree maze of four cells is solved, two of its cells backfilled.
C5_Witness ==
    /\ pc = "solved"
    /\ TreeMaze(shape, compass, cells)
    /\ start \in NonHidden(cells)
    /\ end \in NonHidden(cells)
    /\ start # end
    /\ Cardinality(NonHidden(cells)) = 4
    /\ Cardinality(Reported) = 2

\* C6: the set of cells reported as "solution" does not depend on the order in
\* which the dead ends of a sweep are processed: whatever the shuffle, it is
\* the set the list order yields.
C6_Confluence ==
    (/\ pc = "solved"
     /\ start \in NonHidden(cells)
     /\ end \in NonHidden(cells)
     /\ Symmetric(shape, compass, cells)
     /\ \A c \in DOMAIN cells : \A d \in DOMAIN compass :
           Door(cells[c], d) => Toward(compass, c, d) \in NonHidden(cells)) =>
        SolutionCells(thecopy) = SolutionCells(SolveInOrder(shape, compass, before, start, end).copy)

\* C7: deadend_solve leaves the grid's own storage as it found it.
C7_SolveKeepsCells ==
    pc \in {"s_start", "s_end", "s_sweep", "s_dead", "s_backfill", "s_report", "solved", "raised"}
        => cells = before

\* A solve has ended after closing doors in its scratch copy.
C7_Witness ==
    /\ pc = "solved"
    /\ \E c \in DOMAIN thecopy : BitAnd(thecopy[c], NOTSOLUTION) # 0


\* C8: generation preserves the caller's mask: a cell hidden before generate
\* is exactly HIDDEN after it, no other cell becomes hidden, and no in-maze
\* cell has a door leading to a hidden cell.
C8_MaskPreserved ==
    pc = "generated" =>
        /\ \A c \in DOMAIN cells :
              IF c \in Hidden(before) THEN cells[c] = HIDDEN
              ELSE BitAnd(cells[c], HIDDEN) = 0
        /\ \A c \in InMaze(cells) : \A d \in DOMAIN compass :
              Door(cells[c], d) => Toward(compass, c, d) \notin Hidden(cells)

\* C9: clean() sets every cell to its previous value masked with HIDDEN: the
\* HIDDEN bit is as before, every other bit is clear, and a second clean()
\* would change nothing.
C9_CleanKeepsOnlyHidden ==
    pc = "cleaned" =>
        /\ DOMAIN cells = DOMAIN before
        /\ \A c \in DOMAIN cells :
              /\ BitAnd(cells[c], HIDDEN) = BitAnd(before[c], HIDDEN)
              /\ BitClear(cells[c], HIDDEN) = 0
        /\ clean(cells) = cells

\* clean() has reset a grid holding a hidden cell with other bits set and a
\* cell with solution and direction bits.
C9_Witness ==
    /\ pc = "cleaned"
    /\ \E c \in DOMAIN before :
          BitAnd(before[c], HIDDEN) # 0 /\ BitAnd(before[c], DIR) # 0
    /\ \E c \in DOMAIN before :
          BitAnd(before[c], HIDDEN) = 0 /\ BitAnd(before[c], SOLUTION) # 0


\* C11: the events of a generation run suffice to render the maze: at
\* "generated", every cell some event of the run carried was last carried
\* with the state it has in the grid.
C11_EventsRenderMaze ==
    event.event = "generated" =>
        \A c \in DOMAIN cells : shown[c] # Unseen => shown[c] = cells[c]


\* Each direction's delta has one component per axis of the grid.
Fits(cm, sh) == \A d \in DOMAIN cm : Len(cm[d].deltas) = Len(sh)

\* C12: without a topology the constructor selects Orthogonal2D for a 2-axis
\* shape and a 3-axis shape whose third axis is 1, Orthogonal3D for any other
\* 3-axis shape, and raises for every other dimensionality; the selected
\* compass has deltas of one component per grid axis.
C12_DefaultCompass ==
    (pc # "new" /\ supplied.none) =>
        LET n == Len(shape)
        IN IF n = 2 \/ (n = 3 /\ shape[3] = 1)
           THEN pc = "idle" /\ compass = BuildCompass(Orthogonal2D) /\ Fits(compass, shape)
           ELSE IF n = 3
           THEN pc = "idle" /\ compass = BuildCompass(Orthogonal3D) /\ Fits(compass, shape)
           ELSE pc = "raised" /\ compass = <<>>

\* Some delta of the list has not one component per axis, or some opposite
\* is not the value of a direction of the list.
BadList(list, sh) ==
    \E i \in 1 .. Len(list) :
        \/ Len(list[i].deltas) # Len(sh)
        \/ list[i].opposite \notin {list[j].val : j \in 1 .. Len(list)}

\* C13: the constructor, handed a direction list with a delta of the wrong
\* number of components or an opposite that names no direction of the list,
\* raises and builds no compass.
C13_BadDirectionsRejected ==
    (pc # "new" /\ ~ supplied.none /\ BadList(supplied.list, shape)) =>
        pc = "raised" /\ compass = <<>>


\* The non-hidden cells of the face where the first coordinate is x.
Face(cs, x) == {c \in DOMAIN cs : c[1] = x /\ BitAnd(cs[c], HIDDEN) = 0}

\* random_start, resp. random_end, has just chosen the omitted endpoint.
StartChosen == pc = "s_end" /\ event.event = "random-start"

EndChosen == pc = "s_sweep" /\ event.event = "random-end"

\* C14: an omitted start is chosen among the non-hidden cells whose first
\* coordinate is 0, an omitted end among those whose first coordinate is
\* shape[0]-1, as long as that face has a non-hidden cell.
C14_DefaultsOnFace ==
    /\ (StartChosen /\ Face(cells, 0) # {}) => start \in Face(cells, 0)
    /\ (EndChosen /\ Face(cells, shape[1] - 1) # {}) => end \in Face(cells, shape[1] - 1)

\* C15: when every cell of the face is hidden, an omitted start falls back to
\* the corner of zeros and an omitted end to the corner of shape[i]-1.
C15_FallbackCorner ==
    /\ (StartChosen /\ Face(cells, 0) = {}) => start = [i \in 1 .. Len(shape) |-> 0]
    /\ (EndChosen /\ Face(cells, shape[1] - 1) = {})
          => end = [i \in 1 .. Len(shape) |-> shape[i] - 1]


\* The events that may follow an event of a solve (the same event stays until
\* the next one is emitted; "none" is the return to the caller).
SolveFollowers(name) ==
    CASE name = "random-start" -> {"random-start", "random-end"}
      [] name = "random-end" -> {"random-end", "dead-end", "solution", "solved"}
      [] name = "dead-end" -> {"dead-end", "solution", "solved"}
      [] name = "solution" -> {"solution", "solved"}
      [] name = "solved" -> {"solved", "none"}
      [] OTHER -> {"none", "random-start", "random-end", "dead-end", "solution", "solved"}

\* C16: a solve with start and end omitted emits "random-start" with the
\* chosen start, then "random-end" with the chosen end, then its "dead-end"
\* events, then its "solution" events, then "solved" with the same two
\* coordinate tuples, and nothing after it.
C16_SolveEventOrder ==
    [][/\ (pc = "s_start" /\ start = NoCoord) =>
            /\ event'.event = "random-start"
            /\ event'.start = start'
            /\ Len(start') = Len(shape)
       /\ (pc = "s_end" /\ end = NoCoord) =>
            /\ event'.event = "random-end"
            /\ event'.end = end'
            /\ Len(end') = Len(shape)
       /\ (pc \in {"s_end", "s_sweep", "s_dead", "s_backfill", "s_report", "solved"}
             /\ event.event = "random-start" /\ end = NoCoord)
            => event'.event \in SolveFollowers(event.event)
       /\ (pc \in {"s_sweep", "s_dead", "s_backfill", "s_report", "solved"}
             /\ event.event # "random-start")
            => event'.event \in SolveFollowers(event.event)
       /\ event'.event = "solved" => event'.start = start' /\ event'.end = end'
      ]_vars


\* The events that may follow an event of a generation, emitted from the
\* position at.
GenFollowers(name, at) ==
    CASE name = "none" -> {"generating"}
      [] name = "generating" -> {"mark-cell", "generated"}
      [] name = "mark-cell" ->
            IF at = "markpath" THEN {"mark-cell", "walked"}
            ELSE {"mark-cell", "walk-start", "generated"}
      [] name \in {"walk-start", "walk-step"} -> {"walk-step", "walk-loop", "walk-end"}
      [] name = "walk-loop" -> {"clear-cell"}
      [] name = "clear-cell" -> {"clear-cell", "walk-step", "walk-loop", "walk-end"}
      [] name = "walk-end" -> {"mark-cell"}
      [] name = "walked" -> {"walk-start", "generated"}
      [] name = "generated" -> {"none"}
      [] OTHER -> {}

GenPcs == {"w_seed", "w_loop", "walk", "markpath", "clearpath", "r_loop", "r_enter",
           "r_for", "generated"}

\* C17: a generation emits "generating" first and "generated" last, once
\* each; in Wilson's algorithm a "walk-start" is followed by the walk's
\* "walk-step", "walk-loop" and "clear-cell" events, one "walk-end", the
\* "mark-cell" events of the path and one "walked" before the next
\* "walk-start" or "generated".
C17_GenerationEventOrder ==
    [][/\ ((pc \in GenPcs \/ pc' \in GenPcs) /\ event' # event)
            => event'.event \in GenFollowers(event.event, pc)
       /\ (event'.event = "generating" /\ event' # event)
            => (pc = "idle" /\ event.event = "none")
       /\ (event'.event = "generated" /\ event' # event) => pc' = "generated"
       /\ (pc = "generated" /\ pc' # pc) => (pc' = "idle" /\ event'.event = "none")
      ]_vars

\* A second walk of Wilson's algorithm has ended.
C17_Witness ==
    /\ event.event = "walked"
    /\ Cardinality(InMaze(cells)) >= 3


\* Every cell of the grid is exactly HIDDEN.
AllHidden(cs) == \A c \in DOMAIN cs : cs[c] = HIDDEN

SolvePcs == {"s_start", "s_end", "s_sweep", "s_dead", "s_backfill", "s_report", "solved",
             "raised"}

\* C18: on a grid whose cells are all HIDDEN a generation emits only
\* "generating" and "generated" and changes no cell, and a solve with start
\* and end omitted raises nothing, emits no "dead-end" and no "solution", and
\* ends with "solved" carrying the corner of zeros and the corner of
\* shape[i]-1.
C18_AllHiddenHandled ==
    /\ (pc \in GenPcs /\ AllHidden(before)) =>
          cells = before /\ event.event \in {"generating", "generated"}
    /\ (pc \in SolvePcs /\ AllHidden(cells)) =>
          /\ pc # "raised"
          /\ event.event \notin {"dead-end", "solution"}
          /\ StartChosen => start = [i \in 1 .. Len(shape) |-> 0]
          /\ EndChosen => end = [i \in 1 .. Len(shape) |-> shape[i] - 1]
          /\ pc = "solved" => event = [event |-> "solved", start |-> start, end |-> end]


\* C19: every coordinate a generator or the solver uses to read or write the
\* grid or the scratch copy is in bounds: no access raises, and the cursors
\* that follow arrows (clearpath, markpath), steps of the walk and door bits
\* (backfill) stay on the grid.
C19_IndicesInBounds ==
    /\ pc # "raised"
    /\ pc = "walk" => inbound(shape, current)
    /\ pc \in {"markpath", "clearpath"} => inbound(shape, pstart)
    /\ pc = "s_backfill" => inbound(shape, dead)


\* C20: on a 1x1 grid with no hidden cell either generator runs to
\* "generated" with the cell exactly INMAZE, and Wilson's algorithm starts
\* no walk.
C20_OneByOne ==
    (shape = <<1, 1>> /\ pc \in GenPcs /\ Hidden(cells) = {}) =>
        /\ pc \notin {"walk", "markpath", "clearpath"}
        /\ event.event \in {"generating", "mark-cell", "generated"}
        /\ pc # "generated" =>
              ENABLED (WilsonsSeed \/ WilsonsGenerated \/ RecursivePick \/ RecurseEnter
                          \/ RecurseReturn \/ RecursiveGenerated)
        /\ pc = "generated" => cells[<<0, 0>>] = INMAZE

\* A generation of the 1x1 grid has ended.
C20_Witness ==
    /\ shape = <<1, 1>>
    /\ Hidden(cells) = {}
    /\ pc = "generated"
    /\ cells[<<0, 0>>] = INMAZE

\* --------------------------------------------------- the corridor scenario
\* Maze((5, 1)): generate, then deadend_solve(start=(0,0), end=(4,0)) or
\* deadend_solve() with both left to the default rule.
Corridor == <<5, 1>>

InitCorridor ==
    LET m == MazeInit(Corridor, FALSE, Orthogonal2D)
    IN /\ shape = Corridor
       /\ supplied = None
       /\ compass = m.compass
       /\ cells = m.cells
       /\ pc = "idle"
       /\ event = NoEvent
       /\ start = NoCoord
       /\ current = NoCoord
       /\ neigh = NoCoord
       /\ direction = 0
       /\ pstart = NoCoord
       /\ pend = NoCoord
       /\ opposite = 0
       /\ stack = <<>>
       /\ end = NoCoord
       /\ thecopy = NoArray
       /\ deadlist = {}
       /\ dead = NoCoord
       /\ solution = <<>>
       /\ before = NoArray
       /\ shown = NoArray
       /\ made = {}
       /\ AppInit
       /\ looped = NoArray
       /\ arg = NoCall
       /\ result = NoCall

NextCorridor ==
    \/ \E coord \in DOMAIN cells : set_hidden(coord)
    \/ \E coord \in DOMAIN cells : clear_hidden(coord)
    \/ wilsons_generate
    \/ WilsonsSeed
    \/ WalkStart
    \/ WilsonsGenerated
    \/ WalkReject
    \/ WalkEnd
    \/ MarkStep
    \/ MarkDone
    \/ WalkLoop
    \/ ClearStep
    \/ ClearDone
    \/ WalkStep
    \/ recursive_generate
    \/ RecursivePick
    \/ RecursiveGenerated
    \/ RecurseEnter
    \/ RecurseOpen
    \/ RecurseReturn
    \/ GenReturn
    \/ deadend_solve(<<0, 0>>, <<shape[1] - 1, 0>>)
    \/ deadend_solve(NoCoord, NoCoord)
    \/ random_start
    \/ random_end
    \/ Sweep
    \/ NextDead
    \/ BackfillStep
    \/ BackfillEnd
    \/ ReportSolution
    \/ Solved
    \/ SolveReturn

SpecCorridor == InitCorridor /\ [][NextCorridor]_vars

\* C21: on the generated 5x1 corridor without hidden cells, a solve from
\* (0,0) to (4,0), or one with start and end left to the default rule, emits
\* no "dead-end" event and reports every cell as "solution".
C21_CorridorAllSolution ==
    (pc \in SolvePcs /\ Hidden(cells) = {} /\ InMaze(cells) = DOMAIN cells) =>
        /\ event.event # "dead-end"
        /\ pc \in {"s_report", "solved"} => SolutionCells(thecopy) = DOMAIN cells

\* ------------------------------------------------------- bits(n) alone
\* The packed integers a cell can hold: every subset of the flag and
\* direction bits.
Packed == 0 .. BitOr(STATE_MASK, DIR)

InitBits ==
    /\ arg \in Packed
    /\ result = NoCall
    /\ pc = "bits"
    /\ shape = <<1, 1>>
    /\ supplied = None
    /\ compass = MazeInit(<<1, 1>>, FALSE, Orthogonal2D).compass
    /\ cells = clear(<<1, 1>>)
    /\ event = NoEvent
    /\ start = NoCoord
    /\ current = NoCoord
    /\ neigh = NoCoord
    /\ direction = 0
    /\ pstart = NoCoord
    /\ pend = NoCoord
    /\ opposite = 0
    /\ stack = <<>>
    /\ end = NoCoord
    /\ thecopy = NoArray
    /\ deadlist = {}
    /\ dead = NoCoord
    /\ solution = <<>>
    /\ before = NoArray
    /\ shown = NoArray
    /\ made = {}
    /\ AppInit
    /\ looped = NoArray

\* result = self.bits(arg)
Bits ==
    /\ pc = "bits"
    /\ result' = bits(arg)
    /\ pc' = "bits_done"
    /\ UNCHANGED <<shape, compass, cells, event, walkLocals, stack, solveLocals, before,
                   supplied, made, appVars, looped, shown, arg>>

NextBits == Bits

SpecBits == InitBits /\ [][NextBits]_vars

\* C22: bits(n) returns exactly the set bits of n: each element is a single
\* bit that is set in n, the elements ascend (so none is repeated), they add
\* up to n (so none is missing), and bits(0) is the empty list.
RECURSIVE SumOf(_)
SumOf(list) == IF list = <<>> THEN 0 ELSE Head(list) + SumOf(Tail(list))

SingleBit(x) == x > 0 /\ BitAnd(x, x - 1) = 0

C22_BitsDecompose ==
    pc = "bits_done" =>
        /\ \A i \in 1 .. Len(result) : SingleBit(result[i]) /\ BitAnd(arg, result[i]) = result[i]
        /\ \A i \in 1 .. Len(result) - 1 : result[i] < result[i + 1]
        /\ SumOf(result) = arg
        /\ arg = 0 => result = <<>>

\* bits has decomposed N|E|Up into its three bits.
C22_Witness ==
    /\ pc = "bits_done"
    /\ arg = N + E + U
    /\ result = <<E, N, U>>

\* ---------------------------------------------------- inbound(coord) alone
\* Grids of two and three axes, and tuples of no to three integers that
\* reach one below 0 and up to the largest dimension.
InboundShapes == {s \in NewShapes : Len(s) \in {2, 3}}

InboundCoords == UNION {[1 .. n -> (0 - 1) .. MaxDim] : n \in 0 .. 3}

InitInbound ==
    /\ shape \in InboundShapes
    /\ arg \in InboundCoords
    /\ result = NoCall
    /\ pc = "inbound"
    /\ supplied = None
    /\ compass = MazeInit(shape, FALSE, <<>>).compass
    /\ cells = MazeInit(shape, FALSE, <<>>).cells
    /\ event = NoEvent
    /\ start = NoCoord
    /\ current = NoCoord
    /\ neigh = NoCoord
    /\ direction = 0
    /\ pstart = NoCoord
    /\ pend = NoCoord
    /\ opposite = 0
    /\ stack = <<>>
    /\ end = NoCoord
    /\ thecopy = NoArray
    /\ deadlist = {}
    /\ dead = NoCoord
    /\ solution = <<>>
    /\ before = NoArray
    /\ shown = NoArray
    /\ made = {}
    /\ AppInit
    /\ looped = NoArray

\* result = self.inbound(arg)
Inbound ==
    /\ pc = "inbound"
    /\ result' = inbound(shape, arg)
    /\ pc' = "inbound_done"
    /\ UNCHANGED <<shape, compass, cells, event, walkLocals, stack, solveLocals, before,
                   supplied, made, appVars, looped, shown, arg>>

NextInbound == Inbound

SpecInbound == InitInbound /\ [][NextInbound]_vars

\* C23: inbound answers TRUE exactly for a coordinate with one component per
\* axis, each at least 0 and below the dimension of its axis, and FALSE (no
\* error) for any other arity and for a negative or too large component.
C23_InboundIffInside ==
    pc = "inbound_done" =>
        /\ result \in BOOLEAN
        /\ result = TRUE <=> arg \in Coords(shape)
        /\ Len(arg) # Len(shape) => result = FALSE
        /\ (\E i \in 1 .. Min(Len(arg), Len(shape)) : arg[i] < 0 \/ arg[i] >= shape[i])
              => result = FALSE

\* inbound has rejected a coordinate whose first component is the dimension.
C23_Witness ==
    /\ pc = "inbound_done"
    /\ Len(arg) = Len(shape)
    /\ arg[1] = shape[1]
    /\ \A i \in 2 .. Len(arg) : arg[i] >= 0 /\ arg[i] < shape[i]
    /\ result = FALSE

\* C24: unsolve() clears SOLUTION and NOTSOLUTION of every cell and nothing
\* else: INMAZE, HIDDEN and the direction bits are as before, the passages
\* are the same, and a second unsolve() would change nothing.
C24_UnsolveClearsOnlySolution ==
    pc = "unsolved" =>
        /\ DOMAIN cells = DOMAIN before
        /\ \A c \in DOMAIN cells :
              /\ BitAnd(cells[c], BitOr(SOLUTION, NOTSOLUTION)) = 0
              /\ BitAnd(cells[c], INMAZE) = BitAnd(before[c], INMAZE)
              /\ BitAnd(cells[c], HIDDEN) = BitAnd(before[c], HIDDEN)
              /\ BitAnd(cells[c], DIR) = BitAnd(before[c], DIR)
        /\ Passages(compass, cells, DOMAIN cells) = Passages(compass, before, DOMAIN cells)
        /\ unsolve(cells) = cells

\* unsolve() has reset a grid with a SOLUTION cell and a NOTSOLUTION cell that
\* are in the maze and joined by a passage.
C24_Witness ==
    /\ pc = "unsolved"
    /\ \E c \in DOMAIN before :
          BitAnd(before[c], SOLUTION) # 0 /\ BitAnd(before[c], INMAZE) # 0
    /\ \E c \in DOMAIN before : BitAnd(before[c], NOTSOLUTION) # 0
    /\ Passages(compass, before, DOMAIN before) # {}

\* C25: clear(shape) leaves a grid of the given shape, clear() one of the
\* shape it found, and in both every cell is 0: not INMAZE, not HIDDEN, no
\* direction bit, whatever the cells held before.
C25_ClearZeroes ==
    pc = "cleared" =>
        /\ arg # NoCoord => shape = arg
        /\ arg = NoCoord => DOMAIN before = Coords(shape)
        /\ DOMAIN cells = Coords(shape)
        /\ \A c \in DOMAIN cells : cells[c] = 0

\* clear() with no shape has emptied a grid that held a hidden cell and a
\* cell of the maze with a door.
C25_Witness ==
    /\ pc = "cleared"
    /\ arg = NoCoord
    /\ \E c \in DOMAIN before : BitAnd(before[c], HIDDEN) # 0
    /\ \E c \in DOMAIN before : BitAnd(before[c], INMAZE) # 0 /\ BitAnd(before[c], DIR) # 0
    /\ \A c \in DOMAIN cells : cells[c] = 0

\* C26: INMAZE, HIDDEN, SOLUTION, NOTSOLUTION, E, NE, N, NW, W, SW, S, SE, Up,
\* Down are the bits 0..13 in this order, STATE is the four flags and DIR the
\* ten directions, the two masks share no bit, and every cell of the grid
\* and of the solver's copy holds bits of STATE | DIR only.
Layout == <<INMAZE, HIDDEN, SOLUTION, NOTSOLUTION, E, NE, N, NW, W, SW, S, SE, U, D>>

C26_BitLayout ==
    /\ \A i \in 1 .. Len(Layout) : Layout[i] = 2 ^ (i - 1)
    /\ STATE_MASK = SumOf(SubSeq(Layout, 1, 4))
    /\ DIR = SumOf(SubSeq(Layout, 5, 14))
    /\ BitAnd(STATE_MASK, DIR) = 0
    /\ \A c \in DOMAIN cells : BitClear(cells[c], BitOr(STATE_MASK, DIR)) = 0
    /\ \A c \in DOMAIN thecopy : BitClear(thecopy[c], BitOr(STATE_MASK, DIR)) = 0

\* A solve has ended on a grid with a hidden cell and a cell of the maze
\* with a door, and its copy holds a NOTSOLUTION cell.
C26_Witness ==
    /\ pc = "solved"
    /\ \E c \in DOMAIN cells : cells[c] = HIDDEN
    /\ \E c \in DOMAIN cells : BitAnd(cells[c], INMAZE) # 0 /\ BitAnd(cells[c], DIR) # 0
    /\ \E c \in DOMAIN thecopy : BitAnd(thecopy[c], NOTSOLUTION) # 0

\* The cell a start or end stands for: the coordinates themselves, or the
\* values the map object of random_start / random_end would yield.
CellOf(x) == IF Len(x) = Len(shape) + 1 THEN Tail(x) ELSE x

Marked(copy) == {c \in DOMAIN copy : BitAnd(copy[c], NOTSOLUTION) # 0}

\* C28: the solver never backfills start or end: each "dead-end" event is
\* for a cell other than start and end that had none before, the chain
\* stops when it reaches start or end, and the "solution" events are, once
\* each, for exactly the non-hidden cells without a "dead-end" event, start
\* and end among them when they are not hidden.
C28_EndsNeverBackfilled ==
    [][/\ (pc = "s_backfill" /\ thecopy' # thecopy) =>
            /\ event'.event = "dead-end"
            /\ event'.current \in DOMAIN cells \ {CellOf(start), CellOf(end)}
            /\ event'.current \notin Marked(thecopy)
            /\ Marked(thecopy') = Marked(thecopy) \cup {event'.current}
            /\ pc' # "raised"
            /\ dead' \in {CellOf(start), CellOf(end)} => pc' = "s_dead"
       /\ (pc = "s_sweep" /\ pc' = "s_report") =>
            /\ \A i, j \in 1 .. Len(solution') : solution'[i] = solution'[j] => i = j
            /\ {solution'[i] : i \in 1 .. Len(solution')} = NonHidden(cells) \ Marked(thecopy)
            /\ {CellOf(start), CellOf(end)} \cap NonHidden(cells)
                  \subseteq {solution'[i] : i \in 1 .. Len(solution')}
       /\ (pc = "s_report" /\ solution # <<>>) =>
            /\ event'.event = "solution"
            /\ event'.current = Head(solution)
            /\ solution' = Tail(solution)
      ]_vars

\* The neighbour n is outside the grid or a HIDDEN cell.
Unusable(n) == IF n \in DOMAIN cells THEN BitAnd(cells[n], HIDDEN) # 0 ELSE TRUE

\* C29: in a walk, a sample whose neighbour is out of bounds or HIDDEN
\* changes no cell, leaves the current cell and the walk's start as they
\* are, emits no event and leaves the walk where it samples again.
C29_RejectedSampleIsFree ==
    [][(pc = "walk" /\ Unusable(Neighbor(current, compass[direction'].deltas))) =>
            /\ cells' = cells
            /\ current' = current
            /\ start' = start
            /\ event' = event
            /\ shown' = shown
            /\ pc' = "walk"
      ]_vars

\* A walk has just sampled a direction whose neighbour is a HIDDEN cell.
C29_Witness ==
    /\ pc = "walk"
    /\ direction \in DOMAIN compass
    /\ neigh = Neighbor(current, compass[direction].deltas)
    /\ neigh \in Hidden(cells)
    /\ event.event \in {"walk-start", "walk-step", "walk-loop", "clear-cell"}

\* The cells on the arrow path of cs from a to b, both included.
RECURSIVE ArrowPath(_, _, _)
ArrowPath(cs, a, b) ==
    IF a = b THEN {b}
    ELSE {a} \cup ArrowPath(cs, Neighbor(a, compass[BitAnd(cs[a], DIR)].deltas), b)

\* C30: when the walk meets its own path at the neighbour, the erasure ends
\* with the arrow bits cleared in exactly the cells on the arrow path from
\* the neighbour to the current cell, both included, every other cell (the
\* path from the walk's start to the neighbour's predecessor among them) as
\* the walk found it, no cell newly INMAZE, and the neighbour as current
\* cell without an arrow.
C30_LoopErased ==
    [][(pc = "clearpath" /\ pc' = "walk") =>
            LET loop == ArrowPath(looped, neigh, current)
                kept == ArrowPath(looped, start, neigh) \ {neigh}
            IN /\ \A c \in DOMAIN cells :
                     cells'[c] = IF c \in loop THEN BitClear(looped[c], DIR) ELSE looped[c]
               /\ \A c \in loop \ {current} : BitAnd(looped[c], DIR) # 0
               /\ \A c \in kept : c \notin loop /\ BitAnd(cells'[c], DIR) = BitAnd(looped[c], DIR)
               /\ \A c \in kept : BitAnd(looped[c], DIR) # 0
               /\ InMaze(cells') = InMaze(looped)
               /\ current' = neigh
               /\ start' = start
               /\ BitAnd(cells'[current'], DIR) = 0
      ]_vars

\* clearpath has reached the current cell after erasing a loop that began
\* beyond the walk's start.
C30_Witness ==
    /\ pc = "clearpath"
    /\ pstart = pend
    /\ looped # NoArray
    /\ start # neigh
    /\ BitAnd(looped[start], DIR) # 0
    /\ BitAnd(cells[neigh], DIR) = 0

\* C31: the marking pass starts at the walk's start, follows the arrows to
\* the in-maze neighbour, and on each cell it visits sets INMAZE, stores the
\* reverse of the direction by which the walk entered the cell, and clears
\* the cell's arrow, so that no arrow bit is left when the pass is over.
C31_MarkingClearsArrows ==
    [][/\ (pc = "walk" /\ pc' = "markpath") =>
            /\ pstart' = start
            /\ pend' = neigh'
            /\ pend' \in ArrowPath(cells', start, neigh')
       /\ (pc = "markpath" /\ pstart # pend) =>
            LET arrow == BitAnd(cells[pstart], DIR)
            IN /\ BitAnd(cells'[pstart], INMAZE) # 0
               /\ BitAnd(cells'[pstart], opposite) = opposite
               /\ BitAnd(cells'[pstart], arrow) = 0
               /\ pstart' = Neighbor(pstart, compass[arrow].deltas)
               /\ \A c \in DOMAIN cells \ {pstart} : cells'[c] = cells[c]
      ]_vars

\* The cells met by following single arrows of cs from a, until b, a cell
\* without exactly one direction bit, the edge of the grid, or n cells.
RECURSIVE Trail(_, _, _, _)
Trail(cs, a, b, n) ==
    IF a = b \/ n = 0 \/ countdoors(cs[a]) # 1 THEN <<a>>
    ELSE LET next == Neighbor(a, compass[BitAnd(cs[a], DIR)].deltas)
         IN IF next \in DOMAIN cs THEN <<a>> \o Trail(cs, next, b, n - 1) ELSE <<a>>

\* C32: at every iteration of a walk the cells holding a direction bit
\* without being INMAZE are exactly the cells before the current one on a
\* repetition-free arrow path from the walk's start to the current cell; the
\* current cell has no arrow, each cell before it exactly one direction bit,
\* and no cell of the path is INMAZE or HIDDEN.
C32_WalkIsSimplePath ==
    pc = "walk" =>
        LET path == Trail(cells, start, current, Cardinality(DOMAIN cells))
            on == {path[i] : i \in 1 .. Len(path)}
        IN /\ path[1] = start
           /\ path[Len(path)] = current
           /\ Cardinality(on) = Len(path)
           /\ {c \in DOMAIN cells : BitAnd(cells[c], DIR) # 0 /\ BitAnd(cells[c], INMAZE) = 0}
                 = on \ {current}
           /\ BitAnd(cells[current], DIR) = 0
           /\ \A c \in on \ {current} : countdoors(cells[c]) = 1
           /\ \A c \in on : BitAnd(cells[c], INUSE) = 0

\* A walk is three cells long beside a cell of the maze.
C32_Witness ==
    /\ pc = "walk"
    /\ Len(Trail(cells, start, current, Cardinality(DOMAIN cells))) >= 3
    /\ InMaze(cells) # {}

\* C33: between the walks of Wilson's algorithm, at the seed's "mark-cell"
\* and at every "walked", each cell holding a direction bit is INMAZE, and
\* the INMAZE cells form a tree with symmetric passages: k - 1 passages for
\* k cells, connected.
C33_TreeBetweenWalks ==
    (pc = "w_loop" /\ event.event \in {"mark-cell", "walked"}) =>
        /\ \A c \in DOMAIN cells : BitAnd(cells[c], DIR) # 0 => BitAnd(cells[c], INMAZE) # 0
        /\ IsSpanningTree(compass, cells, InMaze(cells))
        /\ Symmetric(shape, compass, cells)

\* C34: within a generation, after its reset, a cell that is INMAZE stays
\* INMAZE, an INMAZE cell loses no direction bit, and the number of INMAZE
\* cells does not decrease.
C34_GrowthIsMonotonic ==
    [][(pc \in GenPcs) =>
            (/\ DOMAIN cells' = DOMAIN cells
             /\ \A c \in InMaze(cells) :
                   /\ c \in InMaze(cells')
                   /\ BitAnd(cells'[c], BitAnd(cells[c], DIR)) = BitAnd(cells[c], DIR)
             /\ Cardinality(InMaze(cells')) >= Cardinality(InMaze(cells)))
      ]_vars

\* A generation is under way in which a cell of the maze has two doors.
C34_Witness ==
    /\ pc \in GenPcs \ {"generated"}
    /\ Cardinality(InMaze(cells)) >= 3
    /\ \E c \in InMaze(cells) : countdoors(cells[c]) >= 2

\* The non-hidden cells joined to c by steps of the compass between
\* non-hidden cells: c's connected component.
Adjacent(cm, cs) ==
    {{a, Toward(cm, a, d)} : a \in NonHidden(cs), d \in DOMAIN cm}
        \cap {{a, b} : a \in NonHidden(cs), b \in NonHidden(cs)}

Component(cm, cs, c) == Grow(Adjacent(cm, cs), {c})

RecursePcs == {"r_loop", "r_enter", "r_for"}

\* Cells that recurse_gen has yet to be called on, then the depth of the
\* recursion, then the position in the innermost call.
RecurseRank ==
    (2 * Cardinality(DOMAIN cells) + 2)
        * Cardinality(Empties(cells) \ {stack[i].current : i \in 1 .. Len(stack)})
    + 2 * Len(stack) + (IF pc = "r_enter" THEN 1 ELSE 0)

\* C35: recursive_generate always has a step to take and every step lowers
\* RecurseRank, so it ends; a passage is opened from the current cell to a
\* neighbour that is in the grid and neither INMAZE nor HIDDEN, by the
\* direction bit on the current cell and the opposite bit and INMAZE on the
\* neighbour; recurse_gen is started on a cell whose component holds no
\* INMAZE cell, and returns with that component all INMAZE and one tree.
C35_RecursiveGenerate ==
    [][/\ pc \in RecursePcs =>
            ENABLED (RecursivePick \/ RecursiveGenerated \/ RecurseEnter \/ RecurseOpen
                        \/ RecurseReturn)
       /\ (pc \in RecursePcs /\ pc' \in RecursePcs) => RecurseRank' < RecurseRank
       /\ (pc = "r_for" /\ pc' = "r_enter") =>
            LET cur == stack[Len(stack)].current
                n == stack'[Len(stack')].current
                ds == {d \in DOMAIN compass : n = Toward(compass, cur, d)
                                                /\ cells'[cur] = BitOr(cells[cur], d)}
            IN /\ n \in DOMAIN cells
               /\ BitAnd(cells[n], INUSE) = 0
               /\ Cardinality(ds) = 1
               /\ \E d \in ds : cells'[n] = BitOr(cells[n], BitOr(INMAZE, compass[d].opposite))
               /\ \A c \in DOMAIN cells \ {cur, n} : cells'[c] = cells[c]
       /\ (pc = "r_loop" /\ pc' = "r_enter") =>
            Component(compass, cells, stack'[1].current) \cap InMaze(cells) = {}
       /\ (pc = "r_for" /\ pc' = "r_loop") =>
            LET part == Component(compass, cells, stack[1].current)
            IN /\ part \subseteq InMaze(cells)
               /\ Cardinality(Passages(compass, cells, part)) = Cardinality(part) - 1
               /\ Connected(part, Passages(compass, cells, part))
               /\ DoorBits(cells, part) = 2 * (Cardinality(part) - 1)
      ]_vars

\* The dead ends still listed that have exactly one door in the copy.
Live(copy, list) == {c \in list : countdoors(copy[c]) = 1}

SweepPcs == {"s_sweep", "s_dead", "s_backfill"}

\* At position at, with the copy, the list and the cursor d: twice the open
\* door bits of the copy, less one when an iteration of backfill is certain
\* to come; then the length of the list, then the position.
SolveRank(at, copy, list, d) ==
    LET doors == DoorBits(copy, DOMAIN copy)
        due == \/ at = "s_dead" /\ Live(copy, list) # {}
               \/ at = "s_backfill"
                    /\ (countdoors(copy[At(shape, d)]) = 1 \/ Live(copy, list) # {})
    IN (2 * Cardinality(DOMAIN copy) + 4) * (2 * doors - (IF due THEN 1 ELSE 0))
       + (IF at = "s_sweep" THEN 0
          ELSE 2 * Cardinality(list) + (IF at = "s_dead" THEN 1 ELSE 2))

\* C36: deadend_solve ends: each step of its loop lowers SolveRank, and the
\* one door of a cell that backfill is about to fill is a direction of the
\* compass; the door bits open in the copy never increase; a sweep that
\* lists dead ends is followed by the closing of a door; and the loop is
\* left at the first sweep that lists none.
C36_SolveTerminates ==
    [][/\ (pc = "s_backfill" /\ countdoors(thecopy[At(shape, dead)]) = 1) =>
            BitAnd(thecopy[At(shape, dead)], DIR) \in DOMAIN compass
       /\ (pc \in SweepPcs /\ pc' \in SweepPcs) =>
            /\ SolveRank(pc', thecopy', deadlist', dead') < SolveRank(pc, thecopy, deadlist, dead)
            /\ DoorBits(thecopy', DOMAIN thecopy) <= DoorBits(thecopy, DOMAIN thecopy)
       /\ pc \in SweepPcs => pc' \in SweepPcs \cup {"s_report", "raised"}
       /\ pc = "s_sweep" =>
            IF DeadEnds(thecopy, start, end) = {}
            THEN pc' = "s_report"
            ELSE /\ pc' = "s_dead"
                 /\ thecopy' = thecopy
                 /\ deadlist' = DeadEnds(thecopy, start, end)
       /\ (pc = "s_dead" /\ deadlist # {} /\ deadlist = DeadEnds(thecopy, start, end)) =>
            /\ pc' = "s_backfill"
            /\ countdoors(thecopy'[dead']) = 1
       /\ (pc = "s_backfill" /\ countdoors(thecopy[At(shape, dead)]) = 1) =>
            DoorBits(thecopy', DOMAIN thecopy) < DoorBits(thecopy, DOMAIN thecopy)
       /\ pc = "s_report" => Len(solution') < Len(solution) \/ pc' = "solved"
      ]_vars

\* The solver has left its loop after closing doors.
C36_Witness ==
    /\ pc = "s_report"
    /\ Marked(thecopy) # {}
    /\ DoorBits(thecopy, DOMAIN thecopy) < DoorBits(cells, DOMAIN cells)

\* The direction list the maze was built from: a supplied list or the
\* default of the shape's rank is one of the built-in topologies.
BuiltIn == supplied = None \/ supplied.list \in {Orthogonal2D, Orthogonal3D, Hexagonal2D}

\* C37: in a maze built on a built-in topology every direction's opposite is
\* a direction of the same compass, the opposite of the opposite is the
\* direction itself, the opposite's deltas are the negated deltas, and a
\* step along a direction followed by a step along its opposite comes back
\* (for coordinates of the topology's own rank).
C37_OppositesAreInverses ==
    BuiltIn =>
        \A d \in DOMAIN compass :
            LET o == compass[d].opposite
            IN /\ o \in DOMAIN compass
               /\ compass[o].opposite = d
               /\ compass[o].deltas = [i \in DOMAIN compass[d].deltas |-> 0 - compass[d].deltas[i]]
               /\ \A c \in DOMAIN cells :
                     Len(c) = Len(compass[d].deltas) =>
                        Neighbor(Neighbor(c, compass[d].deltas), compass[o].deltas) = c

\* ------------------------------------------- Wilson's algorithm, repeated
\* Maze((2, 2)), never masked: wilsons_generate again and again, the caller
\* keeping the cells each run ends with.
Square == <<2, 2>>

InitTrees ==
    LET m == MazeInit(Square, FALSE, Orthogonal2D)
    IN /\ shape = Square
       /\ supplied = None
       /\ compass = m.compass
       /\ cells = m.cells
       /\ pc = "idle"
       /\ event = NoEvent
       /\ start = NoCoord
       /\ current = NoCoord
       /\ neigh = NoCoord
       /\ direction = 0
       /\ pstart = NoCoord
       /\ pend = NoCoord
       /\ opposite = 0
       /\ stack = <<>>
       /\ end = NoCoord
       /\ thecopy = NoArray
       /\ deadlist = {}
       /\ dead = NoCoord
       /\ solution = <<>>
       /\ before = NoArray
       /\ shown = NoArray
       /\ made = {}
       /\ AppInit
       /\ looped = NoArray
       /\ arg = NoCall
       /\ result = NoCall

\* wilsons_generate has returned: the caller keeps the cells.
Keep ==
    /\ pc = "generated"
    /\ pc' = "idle"
    /\ made' = made \cup {cells}
    /\ event' = NoEvent
    /\ before' = NoArray
    /\ shown' = NoArray
    /\ UNCHANGED <<shape, compass, cells, walkLocals, stack, solveLocals, supplied, appVars,
                   looped, arg, result>>

NextTrees ==
    \/ wilsons_generate
    \/ WilsonsSeed
    \/ WalkStart
    \/ WilsonsGenerated
    \/ WalkReject
    \/ WalkEnd
    \/ MarkStep
    \/ MarkDone
    \/ WalkLoop
    \/ ClearStep
    \/ ClearDone
    \/ WalkStep
    \/ Keep

SpecTrees == InitTrees /\ [][NextTrees]_vars

\* The pairs of cells of the grid one step of the compass apart.
GridEdges(sh, cm) ==
    {e \in {{a, Toward(cm, a, d)} : a \in Coords(sh), d \in DOMAIN cm} : e \subseteq Coords(sh)}

RECURSIVE OrBits(_)
OrBits(set) ==
    IF set = {} THEN 0
    ELSE LET x == CHOOSE y \in set : TRUE IN BitOr(x, OrBits(set \ {x}))

\* The cells of the maze whose passages are the edges of t.
TreeCells(sh, cm, t) ==
    [c \in Coords(sh) |->
        BitOr(INMAZE, OrBits({d \in DOMAIN cm : {c, Toward(cm, c, d)} \in t}))]

\* Every spanning tree of the grid graph, as cells: the connected sets of
\* N - 1 edges over the N cells.
SpanningTrees(sh, cm) ==
    {TreeCells(sh, cm, t) :
        t \in {x \in SUBSET GridEdges(sh, cm) :
                  /\ Cardinality(x) = Cardinality(Coords(sh)) - 1
                  /\ Connected(Coords(sh), x)}}

\* C38: on the unmasked 2x2 grid every maze wilsons_generate ends with is a
\* spanning tree of the grid graph (and every spanning tree is one of them:
\* see the witness).
C38_OnlySpanningTrees ==
    /\ made \subseteq SpanningTrees(shape, compass)
    /\ pc = "generated" => cells \in SpanningTrees(shape, compass)

\* Repeated runs have ended with every spanning tree of the 2x2 grid: all
\* four of them.
C38_Witness ==
    /\ made = SpanningTrees(shape, compass)
    /\ Cardinality(made) = 4

\* ------------------------------------------------- the desktop front end
\* mazer.py's App: the buttons, the producer threads and the queue of
\* pipeline, and the _consumer callbacks scheduled with after().  The
\* algorithm a producer runs is taken as the list of events it emits.
MaxEvents == 1
MaxThreads == 2
MaxPending == 2

_sentinel == [event |-> "_sentinel", n |-> 0]

RECURSIVE Repeat(_, _)
Repeat(x, k) == IF k = 0 THEN <<>> ELSE <<x>> \o Repeat(x, k - 1)

\* The events of a generation, or of a solve, with k events in the middle.
Script(kind, k) ==
    IF kind = "gen" THEN <<"generating">> \o Repeat("mark-cell", k) \o <<"generated">>
    ELSE Repeat("dead-end", k) \o <<"solution", "solved">>

\* update_states with unchanged parameters: no case for State.SOLVING.
update_states(b, st, sv) ==
    CASE st = "INITIAL" -> AllDisabled
      [] st = "CLEARED" -> [generate |-> TRUE, replay |-> FALSE, solve |-> FALSE, step |-> FALSE]
      [] st = "GENERATING" ->
            [generate |-> FALSE, replay |-> FALSE, solve |-> FALSE, step |-> sv # 0]
      [] st \in {"GENERATED", "SOLVED"} ->
            [generate |-> TRUE, replay |-> TRUE, solve |-> TRUE, step |-> sv # 0]
      [] OTHER -> b

\* The return value of gen_event / solve_event: was there a visible update?
Visible(kind, ev) ==
    IF kind = "gen"
    THEN ev \in {"generated", "clear-cell", "mark-cell", "walk-start", "walk-end",
                 "walk-step", "walk-loop"}
    ELSE ev \in {"solved", "random-start", "random-end", "dead-end", "solution"}

\* The event on which the handler ends the run: gen_event on "generated",
\* solve_event on "solved".
Ends(kind, ev) == (kind = "gen" /\ ev = "generated") \/ (kind = "solve" /\ ev = "solved")

RemoveAt(seq, i) == SubSeq(seq, 1, i - 1) \o SubSeq(seq, i + 1, Len(seq))

\* self.after(10, self.stepper): the no-op stepper schedules nothing to run.
After(p, cb) == IF cb = "none" THEN p ELSE [p EXCEPT ![cb] = @ + 1]

CanSchedule(cb) == IF cb = "none" THEN TRUE ELSE pending[cb] < MaxPending

\* clear_pressed: a new Maze, State.CLEARED, update_states.
clear_pressed ==
    /\ appstate' = "CLEARED"
    /\ buttons' = update_states(buttons, "CLEARED", step_var)
    /\ threads' = [i \in DOMAIN threads |-> [threads[i] EXCEPT !.own = FALSE]]
    /\ UNCHANGED <<step_var, stepper, queue, pending, handled, emitted>>
    /\ UNCHANGED mazeVars

\* pipeline(producer, ...): the stepper, a new Queue, a new Thread, and the
\* first _consumer after 100 ms.
pipeline(kind) ==
    /\ Len(threads) < MaxThreads
    /\ pending[kind] < MaxPending
    /\ \E k \in 0 .. MaxEvents :
          threads' = Append(threads, [kind |-> kind, left |-> Script(kind, k), n |-> 0, own |-> TRUE])
    /\ stepper' = kind
    /\ queue' = [open |-> TRUE, items |-> <<>>]
    /\ pending' = [pending EXCEPT ![kind] = @ + 1]
    /\ handled' = <<>>
    /\ emitted' = <<>>

\* replay_pressed past the State.INITIAL test: maze.clean(), GENERATING,
\* update_states, generate().
Replay ==
    /\ appstate # "INITIAL"
    /\ appstate' = "GENERATING"
    /\ buttons' = update_states(buttons, "GENERATING", step_var)
    /\ pipeline("gen")
    /\ UNCHANGED step_var
    /\ UNCHANGED mazeVars

\* The Generate button: a new seed, then replay_pressed.
generate_pressed ==
    /\ buttons.generate
    /\ Replay

\* The Replay button.
replay_pressed ==
    /\ buttons.replay
    /\ Replay

\* The Solve button: hide the solution (SOLVED), or start the solver
\* (GENERATED); nothing in the other states.
solve_pressed ==
    /\ buttons.solve
    /\ CASE appstate = "SOLVED" ->
              /\ appstate' = "GENERATED"
              /\ stepper' = "none"
              /\ UNCHANGED <<buttons, step_var, queue, threads, pending, handled, emitted>>
         [] appstate = "GENERATED" ->
              /\ appstate' = "SOLVING"
              /\ pipeline("solve")
              /\ UNCHANGED <<buttons, step_var>>
         [] OTHER -> UNCHANGED appVars
    /\ UNCHANGED mazeVars

\* A producer thread's algorithm emits its next event: the callback
\* self.queue.put(kw), an AttributeError that ends the thread when
\* self.queue is None.
Emit(i) ==
    /\ threads[i].left # <<>>
    /\ IF queue.open
       THEN LET item == [event |-> Head(threads[i].left), n |-> threads[i].n + 1]
            IN /\ queue' = [queue EXCEPT !.items = Append(@, item)]
               /\ emitted' = Append(emitted, item)
               /\ threads' = [threads EXCEPT ![i].left = Tail(@), ![i].n = @ + 1]
       ELSE /\ threads' = RemoveAt(threads, i)
            /\ UNCHANGED <<queue, emitted>>
    /\ UNCHANGED <<appstate, buttons, step_var, stepper, pending, handled>>
    /\ UNCHANGED mazeVars

\* _producer after the algorithm has returned: self.queue.put(_sentinel),
\* and the thread ends.
PutSentinel(i) ==
    /\ threads[i].left = <<>>
    /\ threads' = RemoveAt(threads, i)
    /\ IF queue.open
       THEN queue' = [queue EXCEPT !.items = Append(@, _sentinel)]
       ELSE UNCHANGED queue
    /\ UNCHANGED <<appstate, buttons, step_var, stepper, pending, handled, emitted>>
    /\ UNCHANGED mazeVars

\* A _consumer that hands the head of the queue to its handler and leaves
\* it on the queue.
FirePeeks(kind) ==
    /\ pending[kind] > 0
    /\ queue.open
    /\ queue.items # <<>>
    /\ Head(queue.items) # _sentinel
    /\ handled' = Append(handled, Head(queue.items))
    /\ pending' = [pending EXCEPT ![kind] = @ - 1]
    /\ UNCHANGED <<appstate, buttons, step_var, stepper, queue, threads, emitted>>
    /\ UNCHANGED mazeVars

\* A scheduled _consumer runs: return when the queue is None, come back
\* later when it is empty, set it to None on the sentinel, else hand the
\* data to the handler and come back unless single stepping saw a visible
\* update.
Fire(kind) ==
    /\ pending[kind] > 0
    /\ IF ~ queue.open
       THEN /\ pending' = [pending EXCEPT ![kind] = @ - 1]
            /\ UNCHANGED <<appstate, buttons, stepper, queue, handled>>
       ELSE IF queue.items = <<>>
       THEN UNCHANGED <<appstate, buttons, stepper, queue, handled, pending>>
       ELSE IF Head(queue.items) = _sentinel
       THEN /\ queue' = NoQueue
            /\ pending' = [pending EXCEPT ![kind] = @ - 1]
            /\ UNCHANGED <<appstate, buttons, stepper, handled>>
       ELSE LET data == Head(queue.items)
                st == IF kind = "gen" THEN "GENERATED" ELSE "SOLVED"
            IN /\ queue' = [queue EXCEPT !.items = Tail(@)]
               /\ handled' = Append(handled, data)
               /\ IF Ends(kind, data.event)
                  THEN /\ appstate' = st
                       /\ stepper' = "none"
                       /\ buttons' = update_states(buttons, st, step_var)
                  ELSE UNCHANGED <<appstate, stepper, buttons>>
               /\ pending' = IF step_var = 0 \/ ~ Visible(kind, data.event) THEN pending
                             ELSE [pending EXCEPT ![kind] = @ - 1]
    /\ UNCHANGED <<step_var, threads, emitted>>
    /\ UNCHANGED mazeVars

\* The "Single step" check box: unchecked, the Step button is disabled and
\* the stepper scheduled; checked, the Step button is enabled.
step_checked ==
    /\ step_var' = 1 - step_var
    /\ IF step_var' = 0
       THEN /\ CanSchedule(stepper)
            /\ buttons' = [buttons EXCEPT !.step = FALSE]
            /\ pending' = After(pending, stepper)
       ELSE /\ buttons' = [buttons EXCEPT !.step = TRUE]
            /\ UNCHANGED pending
    /\ UNCHANGED <<appstate, stepper, queue, threads, handled, emitted>>
    /\ UNCHANGED mazeVars

\* The Step button: schedules the stepper while generating or solving.
step_pressed ==
    /\ buttons.step
    /\ IF appstate \in {"GENERATING", "SOLVING"}
       THEN /\ CanSchedule(stepper)
            /\ pending' = After(pending, stepper)
       ELSE UNCHANGED pending
    /\ UNCHANGED <<appstate, buttons, step_var, stepper, queue, threads, handled, emitted>>
    /\ UNCHANGED mazeVars

\* The application from its start, the user pressing what is enabled.
InitApp == InitTrees

NextApp ==
    \/ clear_pressed
    \/ generate_pressed
    \/ replay_pressed
    \/ solve_pressed
    \/ \E i \in DOMAIN threads : Emit(i)
    \/ \E i \in DOMAIN threads : PutSentinel(i)
    \/ \E kind \in {"gen", "solve"} : Fire(kind)
    \/ step_checked
    \/ step_pressed

SpecApp == InitApp /\ [][NextApp]_vars

\* A producer thread on the App's maze that has not put its sentinel yet.
Running == \E i \in DOMAIN threads : threads[i].own

\* C39: while a producer thread on the App's maze has not yet delivered its
\* sentinel, no step starts a pipeline: replay_pressed (maze.clean(), then
\* generate) and solve are the only callers of pipeline, which replaces the
\* queue and starts a thread at once.
C39_OneAlgorithmAtATime ==
    [][Running => Len(threads') <= Len(threads)]_vars

\* ------------------------------------------------ one run of the pipeline
\* The App just after pipeline() has been called once, for a generation or
\* for a solve, "Single step" checked or not; from there the producer, the
\* _consumer callbacks and the step controls, and no other button.
InitPipeline ==
    \E kind \in {"gen", "solve"}, k \in 0 .. MaxEvents, sv \in {0, 1} :
        LET m == MazeInit(Square, FALSE, Orthogonal2D)
        IN /\ shape = Square
           /\ supplied = None
           /\ compass = m.compass
           /\ cells = m.cells
           /\ pc = "idle"
           /\ event = NoEvent
           /\ start = NoCoord
           /\ current = NoCoord
           /\ neigh = NoCoord
           /\ direction = 0
           /\ pstart = NoCoord
           /\ pend = NoCoord
           /\ opposite = 0
           /\ stack = <<>>
           /\ end = NoCoord
           /\ thecopy = NoArray
           /\ deadlist = {}
           /\ dead = NoCoord
           /\ solution = <<>>
           /\ before = NoArray
           /\ shown = NoArray
           /\ made = {}
           /\ looped = NoArray
           /\ arg = NoCall
           /\ result = NoCall
           /\ appstate = IF kind = "gen" THEN "GENERATING" ELSE "SOLVING"
           /\ buttons = update_states(update_states(AllDisabled, "GENERATED", sv), appstate, sv)
           /\ step_var = sv
           /\ stepper = kind
           /\ queue = [open |-> TRUE, items |-> <<>>]
           /\ threads = <<[kind |-> kind, left |-> Script(kind, k), n |-> 0, own |-> TRUE]>>
           /\ pending = [[gen |-> 0, solve |-> 0] EXCEPT ![kind] = 1]
           /\ handled = <<>>
           /\ emitted = <<>>

NextPipeline ==
    \/ \E i \in DOMAIN threads : Emit(i)
    \/ \E i \in DOMAIN threads : PutSentinel(i)
    \/ \E kind \in {"gen", "solve"} : Fire(kind)
    \/ step_checked
    \/ step_pressed

SpecPipeline == InitPipeline /\ [][NextPipeline]_vars

\* The events on the queue, the sentinel left out.
Waiting == SelectSeq(queue.items, LAMBDA x : x # _sentinel)

Scheduled == pending.gen + pending.solve

====
